---- MODULE Spec2Model ----
(***************************************************************************)
(* TourGenious backend (backend/server.js): the translate, chatbot and     *)
(* places/nearby request handlers with their provider fall-back chains,    *)
(* the chatbot rate limiter and the shared provider cooldown.              *)
(*                                                                         *)
(* Text is modelled as a sequence of one-character strings so that         *)
(* toLowerCase, trim, split, includes and join can be computed.  Text      *)
(* that is only ever copied (the dictionary's Devanagari values, the       *)
(* canned chatbot paragraphs) is a single opaque element of such a         *)
(* sequence; a Devanagari value is written as its code points.             *)
(***************************************************************************)
EXTENDS Integers, Sequences, FiniteSets, TLC

VARIABLES
  now,                           \* Date.now(), in ms
  chatbotRateLimitStore,         \* Map: client key -> {count, resetAt} (or NoEntry)
  chatbotProviderCooldownUntil,  \* shared provider cooldown timestamp
  rlLast,                        \* outcome of the latest chatbotRateLimiter call
  rlAdmits,                      \* history: per key, time -> number of calls admitted then
  rlTicks,                       \* number of clock advances so far (bounded)
  OPENROUTER_API_KEY,            \* process.env.OPENROUTER_API_KEY is set
  tPc, tReq, tProviderStatus, tContacted, tRes, tSent,
  cPc, cReq, cIp, cProviderStatus, cContacted, cRes, cSent,
  pPc, pReq, pContacted, pLastError, pRaw, pSurvivors, pRes, pSent

vars == <<now, chatbotRateLimitStore, chatbotProviderCooldownUntil, rlLast, rlAdmits,
          rlTicks, OPENROUTER_API_KEY,
          tPc, tReq, tProviderStatus, tContacted, tRes, tSent,
          cPc, cReq, cIp, cProviderStatus, cContacted, cRes, cSent,
          pPc, pReq, pContacted, pLastError, pRaw, pSurvivors, pRes, pSent>>

rlVars == <<chatbotRateLimitStore, rlLast, rlAdmits>>
tVars == <<tPc, tReq, tProviderStatus, tContacted, tRes, tSent>>
cVars == <<cPc, cReq, cIp, cProviderStatus, cContacted, cRes, cSent>>
pVars == <<pPc, pReq, pContacted, pLastError, pRaw, pSurvivors, pRes, pSent>>

-----------------------------------------------------------------------------
(* JavaScript values that reach a response field or a truthiness test.     *)

JsStr(s) == [kind |-> "string", val |-> s]
JsUndefined == [kind |-> "undefined", val |-> <<>>]
JsFunction == [kind |-> "function", val |-> <<>>]
JsObject == [kind |-> "object", val |-> <<>>]
JsNumber == [kind |-> "number", val |-> <<>>]

\* ToBoolean: "" and undefined are falsy; functions, objects and (non-zero)
\* numbers are truthy.
Truthy(v) == IF v.kind = "string" THEN v.val # <<>> ELSE v.kind # "undefined"

\* JSON.stringify, as res.json applies it to one property of the body: a
\* property whose value is undefined or a function is left out of the body.
JsonField(v) == IF v.kind \in {"undefined", "function"} THEN JsUndefined ELSE v

\* Array.prototype.join's conversion of one element to a string.
ToStringJs(v) ==
  CASE v.kind = "string" -> v.val
    [] v.kind = "function" -> <<"function Object() { [native code] }">>
    [] v.kind = "object" -> <<"[object Object]">>
    [] OTHER -> <<>>

-----------------------------------------------------------------------------
(* String.prototype methods.                                               *)

UpperCaseLetters == <<"A","B","C","D","E","F","G","H","I","J","K","L","M",
                      "N","O","P","Q","R","S","T","U","V","W","X","Y","Z">>
LowerCaseLetters == <<"a","b","c","d","e","f","g","h","i","j","k","l","m",
                      "n","o","p","q","r","s","t","u","v","w","x","y","z">>

toLowerCaseChar(c) ==
  IF \E i \in 1..26 : UpperCaseLetters[i] = c
    THEN LowerCaseLetters[CHOOSE i \in 1..26 : UpperCaseLetters[i] = c]
    ELSE c

toLowerCase(s) == [i \in 1..Len(s) |-> toLowerCaseChar(s[i])]

includes(s, sub) ==
  \E i \in 0..(Len(s) - Len(sub)) : SubSeq(s, i + 1, i + Len(sub)) = sub

IsWhiteSpace(c) == c = " "

RECURSIVE trimStart(_)
trimStart(s) ==
  IF s # <<>> /\ IsWhiteSpace(Head(s)) THEN trimStart(Tail(s)) ELSE s

RECURSIVE trimEnd(_)
trimEnd(s) ==
  IF s # <<>> /\ IsWhiteSpace(s[Len(s)]) THEN trimEnd(SubSeq(s, 1, Len(s) - 1)) ELSE s

trim(s) == trimEnd(trimStart(s))

\* s.split(/\s+/): the pieces between maximal runs of white space; a leading
\* or trailing run leaves an empty first or last piece.
RECURSIVE splitFrom(_, _, _)
splitFrom(s, cur, inGap) ==
  IF s = <<>> THEN <<cur>>
  ELSE IF IsWhiteSpace(Head(s))
    THEN IF inGap THEN splitFrom(Tail(s), cur, TRUE)
                  ELSE <<cur>> \o splitFrom(Tail(s), <<>>, TRUE)
    ELSE splitFrom(Tail(s), Append(cur, Head(s)), FALSE)

split(s) == splitFrom(s, <<>>, FALSE)

\* parts.join(' ')
RECURSIVE join(_)
join(parts) ==
  IF parts = <<>> THEN <<>>
  ELSE IF Len(parts) = 1 THEN ToStringJs(parts[1])
  ELSE ToStringJs(parts[1]) \o <<" ">> \o join(Tail(parts))

-----------------------------------------------------------------------------
(* Property lookup on an object literal.  An object literal is modelled as *)
(* the sequence of its own properties in insertion order (Object.keys      *)
(* order), a later duplicate key overwriting the value of the earlier one. *)
(* obj[key] falls through to Object.prototype when key is no own property. *)

Chars_constructor == <<"c","o","n","s","t","r","u","c","t","o","r">>
Chars_toString == <<"t","o","S","t","r","i","n","g">>
Chars_valueOf == <<"v","a","l","u","e","O","f">>
Chars_hasOwnProperty == <<"h","a","s","O","w","n","P","r","o","p","e","r","t","y">>
Chars_proto == <<"_","_","p","r","o","t","o","_","_">>

ObjectPrototypeMethods ==
  {Chars_constructor, Chars_toString, Chars_valueOf, Chars_hasOwnProperty}

HasOwn(obj, key) == \E i \in 1..Len(obj) : obj[i].k = key

GetProp(obj, key) ==
  IF HasOwn(obj, key)
    THEN JsStr(obj[CHOOSE i \in 1..Len(obj) : obj[i].k = key].v)
  ELSE IF key \in ObjectPrototypeMethods THEN JsFunction
  ELSE IF key = Chars_proto THEN JsObject
  ELSE JsUndefined

\* Object.keys(obj).find(pred): index of the first own key satisfying pred, 0 if none.
FindKey(obj, Pred(_)) ==
  IF \E i \in 1..Len(obj) : Pred(obj[i].k)
    THEN CHOOSE i \in 1..Len(obj) : Pred(obj[i].k) /\ \A j \in 1..(i - 1) : ~Pred(obj[j].k)
    ELSE 0

-----------------------------------------------------------------------------
(* fallbackTranslations: the phrase dictionaries of the translate handler. *)

Dict_English_Hindi ==
  <<
    [k |-> <<"H","e","l","l","o">>, v |-> <<"u0928u092Eu0938u094Du0924u0947">>],
    [k |-> <<"H","i">>, v |-> <<"u0928u092Eu0938u094Du0924u0947">>],
    [k |-> <<"H","o","w"," ","a","r","e"," ","y","o","u","?">>, v |-> <<"u0906u092A u0915u0948u0938u0947 u0939u0948u0902?">>],
    [k |-> <<"W","h","a","t"," ","i","s"," ","y","o","u","r"," ","n","a","m","e","?">>, v |-> <<"u0906u092Au0915u093E u0928u093Eu092E u0915u094Du092Fu093E u0939u0948?">>],
    [k |-> <<"w","h","a","t"," ","i","s"," ","y","o","u","r"," ","n","a","m","e">>, v |-> <<"u0906u092Au0915u093E u0928u093Eu092E u0915u094Du092Fu093E u0939u0948">>],
    [k |-> <<"W","h","a","t"," ","i","s"," ","y","o","u","r"," ","n","a","m","e">>, v |-> <<"u0906u092Au0915u093E u0928u093Eu092E u0915u094Du092Fu093E u0939u0948">>],
    [k |-> <<"M","y"," ","n","a","m","e"," ","i","s">>, v |-> <<"u092Eu0947u0930u093E u0928u093Eu092E u0939u0948">>],
    [k |-> <<"N","i","c","e"," ","t","o"," ","m","e","e","t"," ","y","o","u">>, v |-> <<"u0906u092Au0938u0947 u092Eu093Fu0932u0915u0930 u0916u0941u0936u0940 u0939u0941u0908">>],
    [k |-> <<"T","h","a","n","k"," ","y","o","u">>, v |-> <<"u0927u0928u094Du092Fu0935u093Eu0926">>],
    [k |-> <<"T","h","a","n","k","s">>, v |-> <<"u0927u0928u094Du092Fu0935u093Eu0926">>],
    [k |-> <<"G","o","o","d"," ","m","o","r","n","i","n","g">>, v |-> <<"u0938u0941u092Au094Du0930u092Du093Eu0924">>],
    [k |-> <<"G","o","o","d"," ","a","f","t","e","r","n","o","o","n">>, v |-> <<"u0928u092Eu0938u094Du0924u0947">>],
    [k |-> <<"G","o","o","d"," ","e","v","e","n","i","n","g">>, v |-> <<"u0936u0941u092D u0938u0902u0927u094Du092Fu093E">>],
    [k |-> <<"G","o","o","d"," ","n","i","g","h","t">>, v |-> <<"u0936u0941u092D u0930u093Eu0924u094Du0930u093F">>],
    [k |-> <<"W","e","l","c","o","m","e">>, v |-> <<"u0938u094Du0935u093Eu0917u0924 u0939u0948">>],
    [k |-> <<"P","l","e","a","s","e">>, v |-> <<"u0915u0943u092Au092Fu093E">>],
    [k |-> <<"S","o","r","r","y">>, v |-> <<"u092Eu093Eu092Bu093C u0915u0940u091Cu093Fu090F">>],
    [k |-> <<"E","x","c","u","s","e"," ","m","e">>, v |-> <<"u092Eu093Eu092Bu093C u0915u0930u0947u0902">>],
    [k |-> <<"Y","e","s">>, v |-> <<"u0939u093Eu0901">>],
    [k |-> <<"N","o">>, v |-> <<"u0928u0939u0940u0902">>],
    [k |-> <<"W","h","e","r","e"," ","i","s">>, v |-> <<"u0915u0939u093Eu0901 u0939u0948">>],
    [k |-> <<"W","h","e","r","e"," ","a","r","e"," ","y","o","u"," ","f","r","o","m","?">>, v |-> <<"u0906u092A u0915u0939u093Eu0901 u0938u0947 u0939u0948u0902?">>],
    [k |-> <<"H","o","w"," ","m","u","c","h">>, v |-> <<"u0915u093Fu0924u0928u093E">>],
    [k |-> <<"H","o","w"," ","o","l","d"," ","a","r","e"," ","y","o","u","?">>, v |-> <<"u0906u092Au0915u0940 u0909u092Eu094Du0930 u0915u094Du092Fu093E u0939u0948?">>],
    [k |-> <<"I"," ","l","o","v","e"," ","y","o","u">>, v |-> <<"u092Eu0948u0902 u0924u0941u092Eu0938u0947 u092Au094Du092Fu093Eu0930 u0915u0930u0924u093E u0939u0942u0901">>],
    [k |-> <<"B","e","a","u","t","i","f","u","l">>, v |-> <<"u0938u0941u0902u0926u0930">>],
    [k |-> <<"D","e","l","i","c","i","o","u","s">>, v |-> <<"u0938u094Du0935u093Eu0926u093Fu0937u094Du091F">>],
    [k |-> <<"H","e","l","p">>, v |-> <<"u092Eu0926u0926">>],
    [k |-> <<"W","a","t","e","r">>, v |-> <<"u092Au093Eu0928u0940">>],
    [k |-> <<"F","o","o","d">>, v |-> <<"u0916u093Eu0928u093E">>],
    [k |-> <<"B","e","a","c","h">>, v |-> <<"u0938u092Eu0941u0926u094Du0930 u0924u091F">>],
    [k |-> <<"H","o","t","e","l">>, v |-> <<"u0939u094Bu091Fu0932">>],
    [k |-> <<"A","i","r","p","o","r","t">>, v |-> <<"u0939u0935u093Eu0908 u0905u0921u094Du0921u093E">>],
    [k |-> <<"S","t","a","t","i","o","n">>, v |-> <<"u0938u094Du091Fu0947u0936u0928">>],
    [k |-> <<"H","o","s","p","i","t","a","l">>, v |-> <<"u0905u0938u094Du092Au0924u093Eu0932">>],
    [k |-> <<"P","o","l","i","c","e">>, v |-> <<"u092Au0941u0932u093Fu0938">>],
    [k |-> <<"M","a","r","k","e","t">>, v |-> <<"u092Cu093Eu091Cu093Cu093Eu0930">>],
    [k |-> <<"R","e","s","t","a","u","r","a","n","t">>, v |-> <<"u0930u0947u0938u094Du091Fu094Bu0930u0947u0902u091F">>],
    [k |-> <<"T","a","x","i">>, v |-> <<"u091Fu0948u0915u094Du0938u0940">>],
    [k |-> <<"B","u","s">>, v |-> <<"u092Cu0938">>],
    [k |-> <<"T","r","a","i","n">>, v |-> <<"u0930u0947u0932">>],
    [k |-> <<"M","o","n","e","y">>, v |-> <<"u092Au0948u0938u093E">>],
    [k |-> <<"T","i","m","e">>, v |-> <<"u0938u092Eu092F">>],
    [k |-> <<"T","o","d","a","y">>, v |-> <<"u0906u091C">>],
    [k |-> <<"T","o","m","o","r","r","o","w">>, v |-> <<"u0915u0932">>],
    [k |-> <<"Y","e","s","t","e","r","d","a","y">>, v |-> <<"u0915u0932 (u092Cu0940u0924u093E u0939u0941u0906)">>]
  >>

Dict_English_Konkani ==
  <<
    [k |-> <<"H","e","l","l","o">>, v |-> <<"u0928u092Eu0938u094Du0915u093Eu0930">>],
    [k |-> <<"H","i">>, v |-> <<"u0928u092Eu0938u094Du0915u093Eu0930">>],
    [k |-> <<"H","o","w"," ","a","r","e"," ","y","o","u","?">>, v |-> <<"u0924u0941u092Eu0940 u0915u0936u0947 u0906u0938u093Eu0924?">>],
    [k |-> <<"W","h","a","t"," ","i","s"," ","y","o","u","r"," ","n","a","m","e","?">>, v |-> <<"u0924u0941u091Du0947 u0928u093Eu0902u0935 u0915u093Fu0924u0947u0902?">>],
    [k |-> <<"w","h","a","t"," ","i","s"," ","y","o","u","r"," ","n","a","m","e">>, v |-> <<"u0924u0941u091Du0947 u0928u093Eu0902u0935 u0915u093Fu0924u0947u0902">>],
    [k |-> <<"W","h","a","t"," ","i","s"," ","y","o","u","r"," ","n","a","m","e">>, v |-> <<"u0924u0941u091Du0947 u0928u093Eu0902u0935 u0915u093Fu0924u0947u0902">>],
    [k |-> <<"M","y"," ","n","a","m","e"," ","i","s">>, v |-> <<"u092Eu094Du0939u091Cu0947 u0928u093Eu0902u0935">>],
    [k |-> <<"N","i","c","e"," ","t","o"," ","m","e","e","t"," ","y","o","u">>, v |-> <<"u0924u0941u0915u093E u092Du0947u091Fu0942u0928 u092Cu0930u0947 u0926u093Fu0938u0932u0947">>],
    [k |-> <<"T","h","a","n","k"," ","y","o","u">>, v |-> <<"u0927u0928u094Du092Fu0935u093Eu0926">>],
    [k |-> <<"T","h","a","n","k","s">>, v |-> <<"u0927u0928u094Du092Fu0935u093Eu0926">>],
    [k |-> <<"G","o","o","d"," ","m","o","r","n","i","n","g">>, v |-> <<"u0938u0941u092Au094Du0930u092Du093Eu0924">>],
    [k |-> <<"G","o","o","d"," ","a","f","t","e","r","n","o","o","n">>, v |-> <<"u0926u0928u092Au093Eu0930u093Eu0902 u092Cu0930u0947">>],
    [k |-> <<"G","o","o","d"," ","e","v","e","n","i","n","g">>, v |-> <<"u0938u093Eu0902u091Cu0947 u092Cu0930u0947">>],
    [k |-> <<"G","o","o","d"," ","n","i","g","h","t">>, v |-> <<"u0936u0941u092D u0930u093Eu0924u094Du0930u093F">>],
    [k |-> <<"W","e","l","c","o","m","e">>, v |-> <<"u0938u094Du0935u093Eu0917u0924">>],
    [k |-> <<"P","l","e","a","s","e">>, v |-> <<"u0915u0943u092Au092Fu093E">>],
    [k |-> <<"S","o","r","r","y">>, v |-> <<"u092Eu093Eu092B u0915u0930u093Eu0924">>],
    [k |-> <<"E","x","c","u","s","e"," ","m","e">>, v |-> <<"u092Eu093Eu092B u0915u0930u093Eu0924">>],
    [k |-> <<"Y","e","s">>, v |-> <<"u0939u093Eu0902u092F">>],
    [k |-> <<"N","o">>, v |-> <<"u0928u093E">>],
    [k |-> <<"W","h","e","r","e"," ","i","s">>, v |-> <<"u0915u0941u0924u094Du0930 u0906u0938u093E">>],
    [k |-> <<"W","h","e","r","e"," ","a","r","e"," ","y","o","u"," ","f","r","o","m","?">>, v |-> <<"u0924u0942u0902 u0915u0941u0924u094Du0930u093Eu0902">>],
    [k |-> <<"H","o","w"," ","m","u","c","h">>, v |-> <<"u0915u093Fu0924u0940">>],
    [k |-> <<"H","o","w"," ","o","l","d"," ","a","r","e"," ","y","o","u","?">>, v |-> <<"u0924u0941u091Du0947 u0935u0930u094Du0938 u0915u093Fu0924u0940?">>],
    [k |-> <<"I"," ","l","o","v","e"," ","y","o","u">>, v |-> <<"u0939u093Eu0902u0935 u0924u0941u0915u093E u092Eu094Bu0917 u0915u0930u0924u093Eu0902">>],
    [k |-> <<"B","e","a","u","t","i","f","u","l">>, v |-> <<"u0938u0941u0902u0926u0930">>],
    [k |-> <<"D","e","l","i","c","i","o","u","s">>, v |-> <<"u0930u0941u091Au0940u0915">>],
    [k |-> <<"H","e","l","p">>, v |-> <<"u0906u0926u093Eu0930">>],
    [k |-> <<"W","a","t","e","r">>, v |-> <<"u0909u0926u0915">>],
    [k |-> <<"F","o","o","d">>, v |-> <<"u091Cu0947u0935u0923">>],
    [k |-> <<"B","e","a","c","h">>, v |-> <<"u0915u093Fu0928u093Eu0930u094B">>],
    [k |-> <<"H","o","t","e","l">>, v |-> <<"u0927u0930u094Du092Eu0936u093Eu0933u093E">>],
    [k |-> <<"A","i","r","p","o","r","t">>, v |-> <<"u0935u093Fu092Eu093Eu0928u0924u0933">>],
    [k |-> <<"S","t","a","t","i","o","n">>, v |-> <<"u0938u094Du0925u093Eu0928u0915">>],
    [k |-> <<"H","o","s","p","i","t","a","l">>, v |-> <<"u0930u0941u0917u094Du0923u093Eu0932u092F">>],
    [k |-> <<"P","o","l","i","c","e">>, v |-> <<"u092Au094Bu0932u0940u0938">>],
    [k |-> <<"M","a","r","k","e","t">>, v |-> <<"u092Cu093Eu091Cu093Eu0930">>],
    [k |-> <<"R","e","s","t","a","u","r","a","n","t">>, v |-> <<"u091Cu0947u0935u0923u0918u0930">>],
    [k |-> <<"T","a","x","i">>, v |-> <<"u091Fu0945u0915u094Du0938u0940">>],
    [k |-> <<"B","u","s">>, v |-> <<"u092Cu0938">>],
    [k |-> <<"T","r","a","i","n">>, v |-> <<"u0930u0947u0932u094Du0935">>],
    [k |-> <<"M","o","n","e","y">>, v |-> <<"u092Au0948u0938u0947">>],
    [k |-> <<"T","i","m","e">>, v |-> <<"u0935u0947u0933">>],
    [k |-> <<"T","o","d","a","y">>, v |-> <<"u0906u092Fu091C">>],
    [k |-> <<"T","o","m","o","r","r","o","w">>, v |-> <<"u092Bu093Eu0932u094Du092Fu093Eu0902">>],
    [k |-> <<"Y","e","s","t","e","r","d","a","y">>, v |-> <<"u0915u093Eu0932">>]
  >>

Dict_English_Marathi ==
  <<
    [k |-> <<"H","e","l","l","o">>, v |-> <<"u0928u092Eu0938u094Du0915u093Eu0930">>],
    [k |-> <<"H","i">>, v |-> <<"u0928u092Eu0938u094Du0915u093Eu0930">>],
    [k |-> <<"H","o","w"," ","a","r","e"," ","y","o","u","?">>, v |-> <<"u0924u0941u092Eu094Du0939u0940 u0915u0938u0947 u0906u0939u093Eu0924?">>],
    [k |-> <<"W","h","a","t"," ","i","s"," ","y","o","u","r"," ","n","a","m","e","?">>, v |-> <<"u0924u0941u092Eu091Au0947 u0928u093Eu0935 u0915u093Eu092F?">>],
    [k |-> <<"w","h","a","t"," ","i","s"," ","y","o","u","r"," ","n","a","m","e">>, v |-> <<"u0924u0941u092Eu091Au0947 u0928u093Eu0935 u0915u093Eu092F">>],
    [k |-> <<"W","h","a","t"," ","i","s"," ","y","o","u","r"," ","n","a","m","e">>, v |-> <<"u0924u0941u092Eu091Au0947 u0928u093Eu0935 u0915u093Eu092F">>],
    [k |-> <<"M","y"," ","n","a","m","e"," ","i","s">>, v |-> <<"u092Eu093Eu091Du0947 u0928u093Eu0935">>],
    [k |-> <<"N","i","c","e"," ","t","o"," ","m","e","e","t"," ","y","o","u">>, v |-> <<"u0924u0941u092Eu094Du0939u093Eu0932u093E u092Du0947u091Fu0942u0928 u0906u0928u0902u0926 u091Du093Eu0932u093E">>],
    [k |-> <<"T","h","a","n","k"," ","y","o","u">>, v |-> <<"u0927u0928u094Du092Fu0935u093Eu0926">>],
    [k |-> <<"T","h","a","n","k","s">>, v |-> <<"u0927u0928u094Du092Fu0935u093Eu0926">>],
    [k |-> <<"G","o","o","d"," ","m","o","r","n","i","n","g">>, v |-> <<"u0938u0941u092Au094Du0930u092Du093Eu0924">>],
    [k |-> <<"G","o","o","d"," ","a","f","t","e","r","n","o","o","n">>, v |-> <<"u0928u092Eu0938u094Du0915u093Eu0930">>],
    [k |-> <<"G","o","o","d"," ","e","v","e","n","i","n","g">>, v |-> <<"u0936u0941u092D u0938u0902u0927u094Du092Fu093E">>],
    [k |-> <<"G","o","o","d"," ","n","i","g","h","t">>, v |-> <<"u0936u0941u092D u0930u093Eu0924u094Du0930u093F">>],
    [k |-> <<"W","e","l","c","o","m","e">>, v |-> <<"u0938u094Du0935u093Eu0917u0924 u0906u0939u0947">>],
    [k |-> <<"P","l","e","a","s","e">>, v |-> <<"u0915u0943u092Au092Fu093E">>],
    [k |-> <<"S","o","r","r","y">>, v |-> <<"u092Eu093Eu092B u0915u0930u093E">>],
    [k |-> <<"E","x","c","u","s","e"," ","m","e">>, v |-> <<"u092Eu093Eu092B u0915u0930u093E">>],
    [k |-> <<"Y","e","s">>, v |-> <<"u0939u094Bu092F">>],
    [k |-> <<"N","o">>, v |-> <<"u0928u093Eu0939u0940">>],
    [k |-> <<"W","h","e","r","e"," ","i","s">>, v |-> <<"u0915u0941u0920u0947 u0906u0939u0947">>],
    [k |-> <<"W","h","e","r","e"," ","a","r","e"," ","y","o","u"," ","f","r","o","m","?">>, v |-> <<"u0924u0941u092Eu094Du0939u0940 u0915u0941u0920u091Au0947 u0906u0939u093Eu0924?">>],
    [k |-> <<"H","o","w"," ","m","u","c","h">>, v |-> <<"u0915u093Fu0924u0940">>],
    [k |-> <<"H","o","w"," ","o","l","d"," ","a","r","e"," ","y","o","u","?">>, v |-> <<"u0924u0941u092Eu091Au0947 u0935u092F u0915u093Fu0924u0940?">>],
    [k |-> <<"I"," ","l","o","v","e"," ","y","o","u">>, v |-> <<"u092Eu0940 u0924u0941u091Du094Du092Fu093Eu0935u0930 u092Au094Du0930u0947u092E u0915u0930u0924u094B">>],
    [k |-> <<"B","e","a","u","t","i","f","u","l">>, v |-> <<"u0938u0941u0902u0926u0930">>],
    [k |-> <<"D","e","l","i","c","i","o","u","s">>, v |-> <<"u091Au0935u093Fu0937u094Du091F">>],
    [k |-> <<"H","e","l","p">>, v |-> <<"u092Eu0926u0924">>],
    [k |-> <<"W","a","t","e","r">>, v |-> <<"u092Au093Eu0923u0940">>],
    [k |-> <<"F","o","o","d">>, v |-> <<"u0905u0928u094Du0928">>],
    [k |-> <<"B","e","a","c","h">>, v |-> <<"u0938u092Eu0941u0926u094Du0930u0915u093Fu0928u093Eu0930u093E">>],
    [k |-> <<"H","o","t","e","l">>, v |-> <<"u0939u0949u091Fu0947u0932">>],
    [k |-> <<"A","i","r","p","o","r","t">>, v |-> <<"u0935u093Fu092Eu093Eu0928u0924u0933">>],
    [k |-> <<"S","t","a","t","i","o","n">>, v |-> <<"u0938u094Du0925u093Eu0928u0915">>],
    [k |-> <<"H","o","s","p","i","t","a","l">>, v |-> <<"u0930u0941u0917u094Du0923u093Eu0932u092F">>],
    [k |-> <<"P","o","l","i","c","e">>, v |-> <<"u092Au094Bu0932u0940u0938">>],
    [k |-> <<"M","a","r","k","e","t">>, v |-> <<"u092Cu093Eu091Cu093Eu0930">>],
    [k |-> <<"R","e","s","t","a","u","r","a","n","t">>, v |-> <<"u091Cu0947u0935u0923u0918u0930">>],
    [k |-> <<"T","a","x","i">>, v |-> <<"u091Fu0945u0915u094Du0938u0940">>],
    [k |-> <<"B","u","s">>, v |-> <<"u092Cu0938">>],
    [k |-> <<"T","r","a","i","n">>, v |-> <<"u0930u0947u0932u094Du0935u0947">>],
    [k |-> <<"M","o","n","e","y">>, v |-> <<"u092Au0948u0938u0947">>],
    [k |-> <<"T","i","m","e">>, v |-> <<"u0935u0947u0933">>],
    [k |-> <<"T","o","d","a","y">>, v |-> <<"u0906u091C">>],
    [k |-> <<"T","o","m","o","r","r","o","w">>, v |-> <<"u0909u0926u094Du092Fu093E">>],
    [k |-> <<"Y","e","s","t","e","r","d","a","y">>, v |-> <<"u0915u093Eu0932">>]
  >>
\* fallbackTranslations[`${fromLanguage}-${toLanguage}`]; <<>> stands for undefined
\* (the three dictionaries are the only own keys, and every key has a '-').
fallbackTranslations(fromLanguage, toLanguage) ==
  CASE fromLanguage = "English" /\ toLanguage = "Hindi" -> Dict_English_Hindi
    [] fromLanguage = "English" /\ toLanguage = "Konkani" -> Dict_English_Konkani
    [] fromLanguage = "English" /\ toLanguage = "Marathi" -> Dict_English_Marathi
    [] OTHER -> <<>>

\* require('./translationPatterns'): a table keyed by language pair, then by
\* lowercase source word.  Its file is not part of the sources at hand.
translationPatterns(fromLanguage, toLanguage) ==
  CASE fromLanguage = "English" /\ toLanguage = "Hindi" ->
         << [k |-> <<"g","o","o","d">>, v |-> <<"u0905u091Au094Du091Bu093E">>] >>
    [] OTHER -> <<>>

\* One word of the word-by-word pass: [hit, v].
TranslateWord(word, patterns, translationMap) ==
  IF patterns # <<>> /\ Truthy(GetProp(patterns, word))
    THEN [hit |-> TRUE, v |-> GetProp(patterns, word)]
    ELSE LET Matches(key) == \/ includes(toLowerCase(key), word)
                             \/ includes(word, toLowerCase(key))
             foundKey == FindKey(translationMap, Matches)
         IN IF foundKey # 0
              THEN [hit |-> TRUE, v |-> JsStr(translationMap[foundKey].v)]
              ELSE [hit |-> FALSE, v |-> JsStr(word)]

\* Variant: the case-insensitive look-up is left out
OfflineTranslation_NoCaseFold(text, fromLanguage, toLanguage) ==
  LET translationMap == fallbackTranslations(fromLanguage, toLanguage)
      words == split(toLowerCase(text))
      patterns == translationPatterns(fromLanguage, toLanguage)
      translations == [i \in 1..Len(words) |-> TranslateWord(words[i], patterns, translationMap)]
      hasTranslations == \E i \in 1..Len(words) : translations[i].hit
  IN IF translationMap = <<>> THEN JsStr(text)
     ELSE IF Truthy(GetProp(translationMap, text)) THEN GetProp(translationMap, text)
     ELSE IF hasTranslations
       THEN JsStr(join([i \in 1..Len(words) |-> translations[i].v]))
       ELSE JsStr(text)

\* The offline fall-back of the translate handler: the value of translatedText
\* before the body is serialised.
OfflineTranslation(text, fromLanguage, toLanguage) ==
  LET translationMap == fallbackTranslations(fromLanguage, toLanguage)
      lowerText == toLowerCase(text)
      SameLower(key) == toLowerCase(key) = lowerText
      exactKey == FindKey(translationMap, SameLower)
      words == split(toLowerCase(text))
      patterns == translationPatterns(fromLanguage, toLanguage)
      translations == [i \in 1..Len(words) |-> TranslateWord(words[i], patterns, translationMap)]
      hasTranslations == \E i \in 1..Len(words) : translations[i].hit
  IN IF translationMap = <<>> THEN JsStr(text)
     ELSE IF Truthy(GetProp(translationMap, text)) THEN GetProp(translationMap, text)
     ELSE IF exactKey # 0 THEN JsStr(translationMap[exactKey].v)
     ELSE IF hasTranslations
       THEN JsStr(join([i \in 1..Len(words) |-> translations[i].v]))
       ELSE JsStr(text)

-----------------------------------------------------------------------------
(* What a provider call can come back with.  kind "ok": a 2xx answer whose *)
(* text field (result.text, choices[0].message.content, translatedText,    *)
(* candidates[0]...text) is body.  kind "error": the call rejected; status *)
(* is error.response.status, 0 when the error carries no response (time-   *)
(* out, DNS or connection failure).                                        *)

SomeText == <<"T">>

OkBodies ==
  { JsStr(SomeText), JsStr(<<" ">> \o SomeText \o <<" ">>), JsStr(<<" ">>),
    JsStr(<<>>), JsUndefined, JsNumber }

ErrorStatuses == {0, 429, 400, 500}

ProviderOutcomes ==
  [kind : {"ok"}, status : {200}, body : OkBodies]
    \cup [kind : {"error"}, status : ErrorStatuses, body : {JsUndefined}]

\* Variant: any 2xx answer is accepted
Usable_AnyAnswer(o) == o.kind = "ok"

\* The handlers accept an answer when its text field is truthy; .trim() on a
\* truthy value that is no string throws a TypeError inside the same try.
Usable(o) == o.kind = "ok" /\ Truthy(o.body) /\ o.body.kind = "string"

\* How an attempt is recorded in the request's log of provider calls.
OutcomeClass(o) ==
  IF Usable(o) THEN "ok"
  ELSE IF o.kind = "ok" THEN "malformed"
  ELSE IF o.status = 0 THEN "noresponse"
  ELSE IF o.status = 429 THEN "http429"
  ELSE IF o.status >= 500 THEN "http5xx"
  ELSE "http4xx"

\* Variant: the call that has settled is left marked as in flight
Returned_StillPending(log, o) == log

Called(log, provider) == Append(log, [p |-> provider, st |-> "pending"])
Returned(log, o) == [log EXCEPT ![Len(log)].st = OutcomeClass(o)]

Providers(log) == [i \in 1..Len(log) |-> log[i].p]

-----------------------------------------------------------------------------
(* POST /api/translate                                                     *)

CHATBOT_PROVIDER_COOLDOWN_MS == 1 * 1000

NoTranslateResponse ==
  [status |-> 0, success |-> FALSE, translatedText |-> JsUndefined, provider |-> "",
   fallback |-> FALSE, message |-> "", error |-> ""]

\* Variant: a provider's translation is marked as a fallback
TranslateOk_MarkedFallback(translatedText, provider) ==
  [status |-> 200, success |-> TRUE, translatedText |-> JsonField(translatedText),
   provider |-> provider, fallback |-> TRUE, message |-> "", error |-> ""]

TranslateOk(translatedText, provider) ==
  [status |-> 200, success |-> TRUE, translatedText |-> JsonField(translatedText),
   provider |-> provider, fallback |-> FALSE, message |-> "", error |-> ""]

TranslateFallback(translatedText, providerStatus) ==
  [status |-> 200, success |-> TRUE, translatedText |-> JsonField(translatedText),
   provider |-> "", fallback |-> TRUE,
   message |-> IF providerStatus = 429 THEN "Rate limited. Using fallback translation."
                                       ELSE "Using fallback translation",
   error |-> ""]

TranslateBadRequest ==
  [status |-> 400, success |-> FALSE, translatedText |-> JsUndefined, provider |-> "",
   fallback |-> FALSE, message |-> "",
   error |-> "Missing required parameters: text, fromLanguage, toLanguage"]

\* Variant: only text is looked at
TranslateInvalid_TextOnly(req) == req.text = <<>>

\* if (!text || !fromLanguage || !toLanguage)
TranslateInvalid(req) == req.text = <<>> \/ req.fromLanguage = "" \/ req.toLanguage = ""

\* Variant: the OpenRouter step is taken whether or not its key is set
AfterGoogle_NoKeyCheck == "openrouter"

\* The provider tried after a failed Google call.
AfterGoogle == IF OPENROUTER_API_KEY THEN "openrouter" ELSE "libretranslate"

\* A request arrives: validation, then the call to Google Translate.
TranslateRequest(req) ==
  /\ tPc = "idle"
  /\ tReq' = req
  /\ tProviderStatus' = 0
  /\ IF TranslateInvalid(req)
       THEN /\ tRes' = TranslateBadRequest
            /\ tSent' = 1
            /\ tContacted' = <<>>
            /\ tPc' = "done"
       ELSE /\ tRes' = NoTranslateResponse
            /\ tSent' = 0
            /\ tContacted' = Called(<<>>, "google")
            /\ tPc' = "google"
  /\ UNCHANGED <<now, rlVars, rlTicks, chatbotProviderCooldownUntil, OPENROUTER_API_KEY, cVars, pVars>>

\* gtranslate() settles: success response, or the catch block's first step.
TranslateGoogleReturns(o) ==
  /\ tPc = "google"
  /\ IF Usable(o)
       THEN /\ tRes' = TranslateOk(JsStr(trim(o.body.val)), "google-translate-ai")
            /\ tSent' = tSent + 1
            /\ tContacted' = Returned(tContacted, o)
            /\ tPc' = "done"
            /\ UNCHANGED tProviderStatus
       ELSE /\ tProviderStatus' = IF o.kind = "error" THEN o.status ELSE 0
            /\ tContacted' = Called(Returned(tContacted, o), AfterGoogle)
            /\ tPc' = AfterGoogle
            /\ UNCHANGED <<tRes, tSent>>
  /\ UNCHANGED tReq
  /\ UNCHANGED <<now, rlVars, rlTicks, chatbotProviderCooldownUntil, OPENROUTER_API_KEY, cVars, pVars>>

\* A later provider of the chain answers usably: its success response.
TranslateAccept(o, provider) ==
  /\ tRes' = TranslateOk(JsStr(trim(o.body.val)), provider)
  /\ tSent' = tSent + 1
  /\ tContacted' = Returned(tContacted, o)
  /\ tPc' = "done"
  /\ UNCHANGED <<tReq, tProviderStatus>>
  /\ UNCHANGED <<now, rlVars, rlTicks, chatbotProviderCooldownUntil, OPENROUTER_API_KEY, cVars, pVars>>

\* A later provider fails: the next one is called.
TranslateAdvance(o, next) ==
  /\ tContacted' = Called(Returned(tContacted, o), next)
  /\ tPc' = next
  /\ UNCHANGED <<tReq, tProviderStatus, tRes, tSent>>
  /\ UNCHANGED <<now, rlVars, rlTicks, chatbotProviderCooldownUntil, OPENROUTER_API_KEY, cVars, pVars>>

TranslateOpenRouterReturns(o) ==
  /\ tPc = "openrouter"
  /\ IF Usable(o) THEN TranslateAccept(o, "openrouter:model")
                  ELSE TranslateAdvance(o, "libretranslate")

TranslateLibreReturns(o) ==
  /\ tPc = "libretranslate"
  /\ IF Usable(o) THEN TranslateAccept(o, "libretranslate")
                  ELSE TranslateAdvance(o, "mymemory")

\* A request field that holds the number 123 in place of a string: truthy,
\* and without the methods of a string.
Number_123 == <<"123 (a number)">>

IsString(field) == field # Number_123

\* The rest of the catch block once MyMemory has failed too: the cooldown
\* on a 429 of the first provider, the offline dictionary, the response.
\* With a text that is no string and a dictionary for the language pair,
\* text.toLowerCase() throws inside the catch block: the handler's promise
\* is rejected and nothing is sent.
TranslateOffline(o) ==
  /\ chatbotProviderCooldownUntil' =
       IF tProviderStatus = 429 THEN now + CHATBOT_PROVIDER_COOLDOWN_MS
                                ELSE chatbotProviderCooldownUntil
  /\ IF IsString(tReq.text) \/ fallbackTranslations(tReq.fromLanguage, tReq.toLanguage) = <<>>
       THEN /\ tRes' = TranslateFallback(
                         OfflineTranslation(tReq.text, tReq.fromLanguage, tReq.toLanguage),
                         tProviderStatus)
            /\ tSent' = tSent + 1
            /\ tPc' = "done"
       ELSE /\ tPc' = "rejected"
            /\ UNCHANGED <<tRes, tSent>>
  /\ tContacted' = Returned(tContacted, o)
  /\ UNCHANGED <<tReq, tProviderStatus>>
  /\ UNCHANGED <<now, rlVars, rlTicks, OPENROUTER_API_KEY, cVars, pVars>>

TranslateMyMemoryReturns(o) ==
  /\ tPc = "mymemory"
  /\ IF Usable(o) THEN TranslateAccept(o, "mymemory")
                  ELSE TranslateOffline(o)

\* The handler's promise has settled: the request's locals are gone.
TranslateEnds ==
  /\ tPc \in {"done", "rejected"}
  /\ tPc' = "idle"
  /\ tReq' = [text |-> <<>>, fromLanguage |-> "", toLanguage |-> ""]
  /\ tProviderStatus' = 0
  /\ tContacted' = <<>>
  /\ tRes' = NoTranslateResponse
  /\ tSent' = 0
  /\ UNCHANGED <<now, rlVars, rlTicks, chatbotProviderCooldownUntil, OPENROUTER_API_KEY, cVars, pVars>>

\* Request bodies of POST /api/translate.  "" and <<>> stand for a field that
\* is absent or empty (both falsy).
Chars_Hello == <<"H","e","l","l","o">>
Chars_hELLO == <<"h","E","L","L","O">>
Chars_GoodDay == <<"G","o","o","d"," ","x","y","z">>
Chars_Xyz == <<"X","y","z">>
Chars_ThankYou == <<"T","h","a","n","k"," ","y","o","u">>
Chars_thank_you == <<"t","h","a","n","k"," ","y","o","u">>
Chars_HelloXyz == <<"H","e","l","l","o"," ","X","y","z">>

TranslateTexts ==
  {<<>>, Chars_Hello, Chars_hELLO, Chars_GoodDay, Chars_Xyz, <<" ">>, Chars_constructor,
   Chars_ThankYou, Chars_thank_you, Chars_HelloXyz}

TranslateRequests ==
  [text : TranslateTexts, fromLanguage : {"", "English", "Hindi"},
   toLanguage : {"", "Hindi"}]

-----------------------------------------------------------------------------
(* generateOfflineChatbotResponse: the offline Goa guide.  Each canned     *)
(* paragraph is one opaque element of the reply text.                     *)

Kw_beach == <<"b","e","a","c","h">>
Kw_hotel == <<"h","o","t","e","l">>
Kw_stay == <<"s","t","a","y">>
Kw_resort == <<"r","e","s","o","r","t">>
Kw_weather == <<"w","e","a","t","h","e","r">>
Kw_food == <<"f","o","o","d">>
Kw_restaurant == <<"r","e","s","t","a","u","r","a","n","t">>
Kw_eat == <<"e","a","t">>
Kw_transport == <<"t","r","a","n","s","p","o","r","t">>
Kw_taxi == <<"t","a","x","i">>
Kw_cab == <<"c","a","b">>
Kw_scooter == <<"s","c","o","o","t","e","r">>
Kw_emergency == <<"e","m","e","r","g","e","n","c","y">>
Kw_help == <<"h","e","l","p">>

CannedBeach == "Top Goa beaches: Baga (nightlife), Calangute (water sports), Anjuna (sunsets), Palolem (peaceful). Go early for parking and bring cash for shacks."
CannedStay == "For stays: North Goa = nightlife (Baga/Calangute), Candolim/Sinquerim = quieter, Anjuna/Vagator = cafes. South Goa = peaceful (Palolem/Agonda/Colva). Book via TourGenious lodging to see verified listings."
CannedWeather == "Goa weather: Oct-Feb pleasant (22-32 C), Mar-May hot (30-36 C), Jun-Sep monsoon. Keep a light rain jacket in monsoon and book refundable stays."
CannedFood == "Try Goan dishes: Fish thali, Cafreal, Xacuti, Vindaloo, Bebinca dessert. Ask shacks for today's fresh catch; avoid plastic waste on beaches."
CannedTransport == "Getting around: Scooters are fastest for short hops; carry license and helmet. For airport -> hotel, pre-book a taxi. Avoid late-night isolated rides; share live location."
CannedEmergency == "Emergency: Dial 112 for police/medical. Keep a copy of your ID. In TourGenious, open Smart Assist -> Emergency for quick contacts and location sharing."
CannedGeneric == "I am your Goa Tourism assistant. Ask me about beaches, stays, food, transport, weather, or how to use TourGenious features (booking, translator, smart assist)."

\* The topic buckets in the order the function checks them: the keywords
\* that trigger a bucket, and the paragraph it pushes.
Buckets ==
  << [kws |-> {Kw_beach}, text |-> CannedBeach],
     [kws |-> {Kw_hotel, Kw_stay, Kw_resort}, text |-> CannedStay],
     [kws |-> {Kw_weather}, text |-> CannedWeather],
     [kws |-> {Kw_food, Kw_restaurant, Kw_eat}, text |-> CannedFood],
     [kws |-> {Kw_transport, Kw_taxi, Kw_cab, Kw_scooter}, text |-> CannedTransport],
     [kws |-> {Kw_emergency, Kw_help}, text |-> CannedEmergency] >>

BucketMatches(b, lower) == \E kw \in b.kws : includes(lower, kw)

\* canned after the six ifs, for the buckets from index i on.
RECURSIVE CannedFrom(_, _)
CannedFrom(i, lower) ==
  IF i > Len(Buckets) THEN <<>>
  ELSE (IF BucketMatches(Buckets[i], lower) THEN <<JsStr(<<Buckets[i].text>>)>> ELSE <<>>)
         \o CannedFrom(i + 1, lower)

\* Variant: the message is searched as it was typed
generateOfflineChatbotResponse_CaseSensitive(message) ==
  LET canned == CannedFrom(1, message)
  IN join(IF canned = <<>> THEN <<JsStr(<<CannedGeneric>>)>> ELSE canned)

generateOfflineChatbotResponse(message) ==
  LET lower == toLowerCase(message)
      canned == CannedFrom(1, lower)
  IN join(IF canned = <<>> THEN <<JsStr(<<CannedGeneric>>)>> ELSE canned)

-----------------------------------------------------------------------------
(* POST /api/chatbot.  The route is registered as                          *)
(*   app.post('/api/chatbot', async (req, res) => ...)                     *)
(* with no middleware in front of the handler.                             *)

NoChatResponse ==
  [status |-> 0, success |-> FALSE, message |-> <<>>, context |-> "", provider |-> "",
   fallback |-> FALSE, rateLimited |-> FALSE, error |-> ""]

ChatOk(botResponse, context, provider) ==
  [status |-> 200, success |-> TRUE, message |-> botResponse, context |-> context,
   provider |-> provider, fallback |-> FALSE, rateLimited |-> FALSE, error |-> ""]

ChatFallback(offlineResponse, context, providerStatus) ==
  [status |-> 200, success |-> TRUE, message |-> offlineResponse, context |-> context,
   provider |-> "offline-goa-guide", fallback |-> TRUE,
   rateLimited |-> (providerStatus = 429), error |-> ""]

ChatBadRequest ==
  [status |-> 400, success |-> FALSE, message |-> <<>>, context |-> "", provider |-> "",
   fallback |-> FALSE, rateLimited |-> FALSE, error |-> "Message is required"]

\* const { message, context = 'travel' } = req.body
ContextOf(req) == IF req.context = "" THEN "travel" ELSE req.context

\* The first provider called once the 150 ms delay is over.
FirstChatProvider == IF OPENROUTER_API_KEY THEN "openrouter" ELSE "gemini"

\* A request reaches the handler: validation, the cooldown reset, and the
\* start of the 150 ms delay.
ChatRequest(req, ip) ==
  /\ cPc = "idle"
  /\ cReq' = req
  /\ cIp' = ip
  /\ cProviderStatus' = 0
  /\ cContacted' = <<>>
  /\ IF req.message = <<>>
       THEN /\ cRes' = ChatBadRequest
            /\ cSent' = 1
            /\ cPc' = "done"
            /\ UNCHANGED chatbotProviderCooldownUntil
       ELSE /\ cRes' = NoChatResponse
            /\ cSent' = 0
            /\ cPc' = "delay"
            /\ chatbotProviderCooldownUntil' = 0
  /\ UNCHANGED <<now, rlVars, rlTicks, OPENROUTER_API_KEY, tVars, pVars>>

\* The delay is over: the primary provider is called when its key is set,
\* Gemini otherwise.
ChatDelayElapsed ==
  /\ cPc = "delay"
  /\ cContacted' = Called(cContacted, FirstChatProvider)
  /\ cPc' = FirstChatProvider
  /\ UNCHANGED <<cReq, cIp, cProviderStatus, cRes, cSent>>
  /\ UNCHANGED <<now, rlVars, rlTicks, chatbotProviderCooldownUntil, OPENROUTER_API_KEY, tVars, pVars>>

ChatAccept(o, provider) ==
  /\ cRes' = ChatOk(trim(o.body.val), ContextOf(cReq), provider)
  /\ cSent' = cSent + 1
  /\ cContacted' = Returned(cContacted, o)
  /\ cPc' = "done"
  /\ UNCHANGED <<cReq, cIp>>
  /\ UNCHANGED <<now, rlVars, rlTicks, chatbotProviderCooldownUntil, OPENROUTER_API_KEY, tVars, pVars>>

\* The primary call settles; its failure is caught and Gemini is called.
ChatPrimaryReturns(o) ==
  /\ cPc = "openrouter"
  /\ IF Usable(o)
       THEN ChatAccept(o, "openrouter:model") /\ UNCHANGED cProviderStatus
       ELSE /\ cContacted' = Called(Returned(cContacted, o), "gemini")
            /\ cPc' = "gemini"
            /\ UNCHANGED <<cReq, cIp, cProviderStatus, cRes, cSent>>
            /\ UNCHANGED <<now, rlVars, rlTicks, chatbotProviderCooldownUntil,
                           OPENROUTER_API_KEY, tVars, pVars>>

\* Variant: the 429 case is forgotten
TriesTertiary_Only5xx(providerStatus) == providerStatus >= 500 /\ OPENROUTER_API_KEY

\* if (providerStatus === 429 || providerStatus >= 500), then
\* if (process.env.OPENROUTER_API_KEY): the free model is tried.
TriesTertiary(providerStatus) ==
  (providerStatus = 429 \/ providerStatus >= 500) /\ OPENROUTER_API_KEY

\* The end of the catch block: the cooldown on a 429 of Gemini, the offline
\* guide, the response.  With a message that is no string, message.toLowerCase()
\* throws in generateOfflineChatbotResponse, inside the catch block: the
\* handler's promise is rejected and nothing is sent.
ChatOffline(o, providerStatus) ==
  /\ chatbotProviderCooldownUntil' =
       IF providerStatus = 429 THEN now + CHATBOT_PROVIDER_COOLDOWN_MS
                               ELSE chatbotProviderCooldownUntil
  /\ IF IsString(cReq.message)
       THEN /\ cRes' = ChatFallback(generateOfflineChatbotResponse(cReq.message),
                                    ContextOf(cReq), providerStatus)
            /\ cSent' = cSent + 1
            /\ cPc' = "done"
       ELSE /\ cPc' = "rejected"
            /\ UNCHANGED <<cRes, cSent>>
  /\ cContacted' = Returned(cContacted, o)
  /\ UNCHANGED <<cReq, cIp>>
  /\ UNCHANGED <<now, rlVars, rlTicks, OPENROUTER_API_KEY, tVars, pVars>>

\* The Gemini call settles: success, or the catch block up to the call of
\* the free model, or the catch block to its end.
ChatGeminiReturns(o) ==
  /\ cPc = "gemini"
  /\ LET providerStatus == IF o.kind = "error" THEN o.status ELSE 0
     IN IF Usable(o)
          THEN ChatAccept(o, "gemini-1.5-flash") /\ UNCHANGED cProviderStatus
        ELSE IF TriesTertiary(providerStatus)
          THEN /\ cProviderStatus' = providerStatus
               /\ cContacted' = Called(Returned(cContacted, o), "openrouter-free")
               /\ cPc' = "openrouter-free"
               /\ UNCHANGED <<cReq, cIp, cRes, cSent>>
               /\ UNCHANGED <<now, rlVars, rlTicks, chatbotProviderCooldownUntil,
                              OPENROUTER_API_KEY, tVars, pVars>>
          ELSE /\ cProviderStatus' = providerStatus
               /\ ChatOffline(o, providerStatus)

\* The free model's call settles.
ChatTertiaryReturns(o) ==
  /\ cPc = "openrouter-free"
  /\ IF Usable(o)
       THEN ChatAccept(o, "openrouter-llama-free") /\ UNCHANGED cProviderStatus
       ELSE ChatOffline(o, cProviderStatus) /\ UNCHANGED cProviderStatus

\* The handler's promise has settled: the request's locals are gone.
ChatEnds ==
  /\ cPc \in {"done", "rejected"}
  /\ cPc' = "idle"
  /\ cReq' = [message |-> <<>>, context |-> ""]
  /\ cIp' = ""
  /\ cProviderStatus' = 0
  /\ cContacted' = <<>>
  /\ cRes' = NoChatResponse
  /\ cSent' = 0
  /\ UNCHANGED <<now, rlVars, rlTicks, chatbotProviderCooldownUntil, OPENROUTER_API_KEY, tVars, pVars>>

\* Request bodies of POST /api/chatbot and the client addresses (req.ip).
Msg_beach == <<"A","n","y"," ","B","E","A","C","H"," ","n","e","a","r","b","y","?">>
Msg_many == <<"H","e","l","p",":"," ","h","o","t","e","l"," ","a","n","d"," ","t","a","x","i">>
Msg_none == <<"H","i">>
Msg_seat == <<"s","e","a","t">>

ChatRequests ==
  [message : {<<>>, Msg_beach, Msg_many, Msg_none, Msg_seat}, context : {"", "food"}]

Keys == {"ip1", "ip2"}

-----------------------------------------------------------------------------
(* chatbotRateLimiter(req, res, next)                                      *)

CHATBOT_WINDOW_MS == 60 * 1000
CHATBOT_MAX_REQUESTS == 50

\* chatbotRateLimitStore.get(key) is undefined
NoEntry == [count |-> 0, resetAt |-> 0 - 1]

Max(a, b) == IF a >= b THEN a ELSE b

\* Variant: the window is already over at its reset time
WindowOver_AtBoundary(entry, t) == entry = NoEntry \/ t >= entry.resetAt

\* if (!entry || now > entry.resetAt)
WindowOver(entry, t) == entry = NoEntry \/ t > entry.resetAt

\* Variant: a new window keeps the old counter
CurrentEntry_KeepsCount(entry, t) ==
  IF WindowOver(entry, t) THEN [count |-> entry.count, resetAt |-> t + CHATBOT_WINDOW_MS] ELSE entry

\* the entry the limiter works on after that if
CurrentEntry(entry, t) ==
  IF WindowOver(entry, t) THEN [count |-> 0, resetAt |-> t + CHATBOT_WINDOW_MS] ELSE entry

\* Variant: > in place of >=
OverQuota_OffByOne(entry) == entry.count > CHATBOT_MAX_REQUESTS

\* if (entry.count >= CHATBOT_MAX_REQUESTS)
OverQuota(entry) == entry.count >= CHATBOT_MAX_REQUESTS

\* const retryAfterMs = Math.max(entry.resetAt - now, 0)
RetryAfterMs(entry, t) == Max(entry.resetAt - t, 0)

\* rlLast: the latest call (its key, its time, the entry it found in the
\* store) and what it did (next() or the 429 body).
NoLimiterCall ==
  [key |-> "", at |-> 0, before |-> NoEntry, admitted |-> FALSE, status |-> 0,
   rateLimited |-> FALSE, retryAfterMs |-> 0, windowMs |-> 0]

\* rlAdmits[key] maps a time to the number of calls admitted at that time.
NoAdmits == [t \in {} |-> 0]

AddAdmit(h, t) ==
  [u \in DOMAIN h \cup {t} |-> IF u = t THEN (IF t \in DOMAIN h THEN h[t] + 1 ELSE 1) ELSE h[u]]

\* Variant: an admitted call leaves the counter as it found it
RateLimiterStep_LostUpdate(key) ==
  LET entry == CurrentEntry(chatbotRateLimitStore[key], now)
  IN /\ chatbotRateLimitStore' = [chatbotRateLimitStore EXCEPT ![key] = entry]
     /\ rlLast' = [key |-> key, at |-> now, before |-> chatbotRateLimitStore[key],
                   admitted |-> ~OverQuota(entry),
                   status |-> IF OverQuota(entry) THEN 429 ELSE 0,
                   rateLimited |-> OverQuota(entry),
                   retryAfterMs |-> IF OverQuota(entry) THEN RetryAfterMs(entry, now) ELSE 0,
                   windowMs |-> IF OverQuota(entry) THEN CHATBOT_WINDOW_MS ELSE 0]

\* One call of the middleware for a request of client `key`: the store and
\* either the 429 response or next().
RateLimiterStep(key) ==
  LET entry == CurrentEntry(chatbotRateLimitStore[key], now)
  IN IF OverQuota(entry)
       THEN /\ chatbotRateLimitStore' = [chatbotRateLimitStore EXCEPT ![key] = entry]
            /\ rlLast' = [key |-> key, at |-> now, before |-> chatbotRateLimitStore[key],
                          admitted |-> FALSE, status |-> 429,
                          rateLimited |-> TRUE,
                          retryAfterMs |-> RetryAfterMs(entry, now),
                          windowMs |-> CHATBOT_WINDOW_MS]
       ELSE /\ chatbotRateLimitStore' =
                 [chatbotRateLimitStore EXCEPT ![key] = [entry EXCEPT !.count = @ + 1]]
            /\ rlLast' = [key |-> key, at |-> now, before |-> chatbotRateLimitStore[key],
                          admitted |-> TRUE, status |-> 0,
                          rateLimited |-> FALSE, retryAfterMs |-> 0, windowMs |-> 0]

RateLimiterCall(key) ==
  /\ RateLimiterStep(key)
  /\ UNCHANGED <<now, rlAdmits, rlTicks, chatbotProviderCooldownUntil, OPENROUTER_API_KEY,
                 tVars, cVars, pVars>>

\* The same call with the admissions of the client written down: rlAdmits
\* keeps, for the times of the last CHATBOT_WINDOW_MS, how many calls were
\* admitted at each.
Recent(h, t) == [u \in {x \in DOMAIN h : x >= t - CHATBOT_WINDOW_MS} |-> h[u]]

RateLimiterCallObserved(key) ==
  /\ RateLimiterStep(key)
  /\ rlAdmits' = [rlAdmits EXCEPT ![key] =
                    IF rlLast'.admitted THEN AddAdmit(Recent(@, now), now) ELSE Recent(@, now)]
  /\ UNCHANGED <<now, rlTicks, chatbotProviderCooldownUntil, OPENROUTER_API_KEY,
                 tVars, cVars, pVars>>

\* The clock moves on between two calls: by one millisecond or by a whole
\* window length.
MaxTicks == 2

TickSteps == {1, CHATBOT_WINDOW_MS}

Tick(d) ==
  /\ rlTicks < MaxTicks
  /\ now' = now + d
  /\ rlTicks' = rlTicks + 1
  /\ UNCHANGED <<rlVars, chatbotProviderCooldownUntil, OPENROUTER_API_KEY, tVars, cVars, pVars>>

-----------------------------------------------------------------------------
(* POST /api/places/nearby                                                 *)
(*                                                                         *)
(* Coordinates are integers in thousandths of a degree.  The elements a    *)
(* mirror returns lie on the meridian of the query point (their longitude  *)
(* is the request's longitude), where dLon = 0 and the haversine formula   *)
(* reduces to  distance = R * |lat - latitude| * PI / 180.  Distances are  *)
(* kept in millimetres; place.distance is kept in tenths of a kilometre.   *)

Num(n) == [present |-> TRUE, v |-> n]
Absent == [present |-> FALSE, v |-> 0]

\* !x for a request or element field holding a number: undefined and 0 are falsy.
Falsy(x) == ~x.present \/ x.v = 0

Abs(n) == IF n < 0 THEN 0 - n ELSE n

EarthRadiusKm == 6371
PiTenThousandths == 31416
DefaultRadius == 5000
MaxPlaces == 50

\* const searchRadius = radius || 5000
SearchRadius(req) == IF Falsy(req.radius) THEN DefaultRadius ELSE req.radius.v

\* element.lat || (element.center ? element.center.lat : latitude)
PlaceLat(element, latitude) ==
  IF ~Falsy(element.lat) THEN element.lat.v
  ELSE IF element.center.present THEN element.center.v
  ELSE latitude

\* R * PI / 180 for one thousandth of a degree, in millimetres.
MmPerMilliDegree == (EarthRadiusKm * PiTenThousandths) \div 1800

\* R * c of the handler for two points of one meridian, in millimetres.
HaversineMm(lat, latitude) == Abs(lat - latitude) * MmPerMilliDegree

\* Math.round(distance * 10) / 10, in tenths of a kilometre.
RoundTenths(mm) == (mm + 50000) \div 100000

\* .filter(element => element.tags && element.tags.name)
Named(elements) == SelectSeq(elements, LAMBDA e : e.named)

\* the object .map() builds for one element
ToPlace(element, latitude) ==
  [id |-> element.id,
   lat |-> PlaceLat(element, latitude),
   distance |-> RoundTenths(HaversineMm(PlaceLat(element, latitude), latitude))]

\* .filter(place => place.distance <= (searchRadius / 1000))
WithinRadius(place, searchRadius) == place.distance * 100 <= searchRadius

Places(elements, latitude, searchRadius) ==
  LET named == Named(elements)
      mapped == [i \in 1..Len(named) |-> ToPlace(named[i], latitude)]
  IN SelectSeq(mapped, LAMBDA p : WithinRadius(p, searchRadius))

\* Variant: the list is left in the order of the answer
SortByDistance_Unsorted(places) == places

\* places.sort((a, b) => a.distance - b.distance): a stable sort, ascending
\* by distance.  Built by taking, for each distance from the smallest on,
\* the places at that distance in their order in the list.
RECURSIVE SortFrom(_, _)
SortFrom(places, dists) ==
  IF dists = {} THEN <<>>
  ELSE LET d == CHOOSE x \in dists : \A y \in dists : x <= y
       IN SelectSeq(places, LAMBDA p : p.distance = d) \o SortFrom(places, dists \ {d})

SortByDistance(places) ==
  SortFrom(places, {places[i].distance : i \in 1..Len(places)})

\* .slice(0, 50)
Slice(s, n) == SubSeq(s, 1, IF Len(s) < n THEN Len(s) ELSE n)

\* Variant: the list is cut before it is sorted
sortedPlaces_CutFirst(places) == SortByDistance(Slice(places, MaxPlaces))

sortedPlaces(places) == Slice(SortByDistance(places), MaxPlaces)

\* element.id.toString() throws when a named element carries no id.
MapThrows(elements) == \E i \in 1..Len(elements) : elements[i].named /\ ~elements[i].hasId

NoPlacesResponse ==
  [status |-> 0, success |-> FALSE, places |-> <<>>, total |-> 0, error |-> "",
   message |-> "", details |-> ""]

PlacesOk(list) ==
  [status |-> 200, success |-> TRUE, places |-> list, total |-> Len(list), error |-> "",
   message |-> "", details |-> ""]

PlacesBadRequest ==
  [status |-> 400, success |-> FALSE, places |-> <<>>, total |-> 0,
   error |-> "Missing required parameters: latitude, longitude",
   message |-> "", details |-> ""]

\* the handler's catch block: message is the caught error's message
PlacesError(message) ==
  [status |-> 500, success |-> FALSE, places |-> <<>>, total |-> 0,
   error |-> "Failed to fetch nearby places", message |-> message,
   details |-> "OpenStreetMap Overpass API may be temporarily unavailable. Please try again."]

\* Variant: the list in another order
overpassUrls_Reordered ==
  << "https://overpass-api.de/api/interpreter",
     "https://overpass.kumi.systems/api/interpreter",
     "https://maps.mail.ru/osm/tools/overpass/api/interpreter" >>

\* const overpassUrls = [...]
overpassUrls ==
  << "https://overpass.kumi.systems/api/interpreter",
     "https://overpass-api.de/api/interpreter",
     "https://maps.mail.ru/osm/tools/overpass/api/interpreter" >>

AllFailedMessage == "All Overpass API servers failed"
TypeErrorMessage == "Cannot read properties of undefined (reading 'toString')"

\* The messages of the errors axios rejects a mirror call with.
MirrorErrorMessages ==
  { "timeout of 15000ms exceeded", "Request failed with status code 429",
    "Request failed with status code 504" }

\* throw lastError || new Error('All Overpass API servers failed')
ThrownWhenNoResponse(lastError) ==
  IF lastError # "" THEN lastError ELSE AllFailedMessage

\* Variant: && in place of ||
PlacesInvalid_And(req) == Falsy(req.latitude) /\ Falsy(req.longitude)

\* if (!latitude || !longitude)
PlacesInvalid(req) == Falsy(req.latitude) \/ Falsy(req.longitude)

\* A request arrives: validation, then the call to the first mirror.
PlacesRequest(req) ==
  /\ pPc = "idle"
  /\ pReq' = req
  /\ pLastError' = ""
  /\ pRaw' = <<>>
  /\ pSurvivors' = <<>>
  /\ IF PlacesInvalid(req)
       THEN /\ pRes' = PlacesBadRequest
            /\ pSent' = 1
            /\ pContacted' = <<>>
            /\ pPc' = "done"
       ELSE /\ pRes' = NoPlacesResponse
            /\ pSent' = 0
            /\ pContacted' = <<[p |-> overpassUrls[1], st |-> "pending"]>>
            /\ pPc' = "mirror"
  /\ UNCHANGED <<now, rlVars, rlTicks, chatbotProviderCooldownUntil, OPENROUTER_API_KEY,
                 tVars, cVars>>

\* The mirror being waited for rejects: the next mirror is called, or, after
\* the last one, the error is thrown to the handler's catch block.
PlacesMirrorFails(message) ==
  /\ pPc = "mirror"
  /\ pLastError' = message
  /\ LET log == [pContacted EXCEPT ![Len(pContacted)].st = "failed"]
     IN IF Len(pContacted) < Len(overpassUrls)
          THEN /\ pContacted' =
                    Append(log, [p |-> overpassUrls[Len(pContacted) + 1], st |-> "pending"])
               /\ UNCHANGED <<pPc, pRes, pSent>>
          ELSE /\ pContacted' = log
               /\ pRes' = PlacesError(ThrownWhenNoResponse(message))
               /\ pSent' = pSent + 1
               /\ pPc' = "done"
  /\ UNCHANGED <<pReq, pRaw, pSurvivors>>
  /\ UNCHANGED <<now, rlVars, rlTicks, chatbotProviderCooldownUntil, OPENROUTER_API_KEY,
                 tVars, cVars>>

\* Variant: an answer is taken for a failure and the next mirror is tried
PlacesMirrorAnswers_TriesNext(data) == PlacesMirrorFails(AllFailedMessage)

\* The mirror being waited for answers: the loop ends and the answer is
\* post-processed.  data.hasElements is false when the body has no elements.
PlacesMirrorAnswers(data) ==
  /\ pPc = "mirror"
  /\ pContacted' = [pContacted EXCEPT ![Len(pContacted)].st = "ok"]
  /\ pRaw' = data.elements
  /\ IF ~data.hasElements
       THEN /\ pRes' = PlacesOk(<<>>)
            /\ pSurvivors' = <<>>
     ELSE IF MapThrows(data.elements)
       THEN /\ pRes' = PlacesError(TypeErrorMessage)
            /\ pSurvivors' = <<>>
       ELSE LET places == Places(data.elements, pReq.latitude.v, SearchRadius(pReq))
            IN /\ pSurvivors' = places
               /\ pRes' = PlacesOk(sortedPlaces(places))
  /\ pSent' = pSent + 1
  /\ pPc' = "done"
  /\ UNCHANGED <<pReq, pLastError>>
  /\ UNCHANGED <<now, rlVars, rlTicks, chatbotProviderCooldownUntil, OPENROUTER_API_KEY,
                 tVars, cVars>>

\* The handler's promise has settled: the request's locals are gone.
PlacesEnds ==
  /\ pPc = "done"
  /\ pPc' = "idle"
  /\ pReq' = [latitude |-> Absent, longitude |-> Absent, radius |-> Absent]
  /\ pContacted' = <<>>
  /\ pLastError' = ""
  /\ pRaw' = <<>>
  /\ pSurvivors' = <<>>
  /\ pRes' = NoPlacesResponse
  /\ pSent' = 0
  /\ UNCHANGED <<now, rlVars, rlTicks, chatbotProviderCooldownUntil, OPENROUTER_API_KEY,
                 tVars, cVars>>

\* Request bodies of POST /api/places/nearby.
PlacesRequests ==
  [latitude : {Absent, Num(0), Num(15300)}, longitude : {Absent, Num(74100)},
   radius : {Absent, Num(0), Num(1000)}]

\* Raw elements as a mirror returns them, before their ids are set.  With the
\* query at latitude 15.300: 0.4 km, 1.0 km, 2.2 km (a way, by its centre),
\* 5.004 km, 5.1 km away; an element with neither lat nor centre; a node at
\* latitude 0; an element without a name; a named element without an id.
El(named, hasId, lat, center) ==
  [id |-> 0, named |-> named, hasId |-> hasId, lat |-> lat, center |-> center]

ElementKinds ==
  { El(TRUE, TRUE, Num(15304), Absent), El(TRUE, TRUE, Num(15309), Absent),
    El(TRUE, TRUE, Absent, Num(15320)), El(TRUE, TRUE, Num(15345), Absent),
    El(TRUE, TRUE, Num(15346), Absent), El(TRUE, TRUE, Absent, Absent),
    El(TRUE, TRUE, Num(0), Absent), El(FALSE, TRUE, Num(15304), Absent),
    El(TRUE, FALSE, Num(15304), Absent) }

\* A long run of one kind of element, so that more than 50 places survive.
BulkKinds == {El(TRUE, TRUE, Num(15309), Absent), El(TRUE, TRUE, Absent, Num(15320))}

MaxTail == 2

RECURSIVE SeqsUpTo(_, _)
SeqsUpTo(S, n) ==
  IF n = 0 THEN {<<>>}
  ELSE LET shorter == SeqsUpTo(S, n - 1)
       IN shorter \cup {Append(s, x) : s \in shorter, x \in S}

WithIds(elements) == [i \in 1..Len(elements) |-> [elements[i] EXCEPT !.id = i]]

ElementLists ==
  LET tails == SeqsUpTo(ElementKinds, MaxTail)
      bulks == {<<>>} \cup {[i \in 1..MaxPlaces |-> b] : b \in BulkKinds}
  IN {WithIds(b \o t) : b \in bulks, t \in tails}

MirrorAnswers ==
  {[hasElements |-> FALSE, elements |-> <<>>]}
    \cup {[hasElements |-> TRUE, elements |-> e] : e \in ElementLists}

-----------------------------------------------------------------------------
(* The initial state and the specifications.                               *)

Init ==
  /\ now = 0
  /\ chatbotRateLimitStore = [k \in Keys |-> NoEntry]
  /\ chatbotProviderCooldownUntil = 0
  /\ rlLast = NoLimiterCall
  /\ rlAdmits = [k \in Keys |-> NoAdmits]
  /\ rlTicks = 0
  /\ OPENROUTER_API_KEY \in BOOLEAN
  /\ tPc = "idle" /\ tReq = [text |-> <<>>, fromLanguage |-> "", toLanguage |-> ""]
  /\ tProviderStatus = 0 /\ tContacted = <<>> /\ tRes = NoTranslateResponse /\ tSent = 0
  /\ cPc = "idle" /\ cReq = [message |-> <<>>, context |-> ""] /\ cIp = ""
  /\ cProviderStatus = 0 /\ cContacted = <<>> /\ cRes = NoChatResponse /\ cSent = 0
  /\ pPc = "idle" /\ pReq = [latitude |-> Absent, longitude |-> Absent, radius |-> Absent]
  /\ pContacted = <<>> /\ pLastError = "" /\ pRaw = <<>> /\ pSurvivors = <<>>
  /\ pRes = NoPlacesResponse /\ pSent = 0

NextTranslate ==
  \/ \E req \in TranslateRequests : TranslateRequest(req)
  \/ \E o \in ProviderOutcomes : TranslateGoogleReturns(o)
  \/ \E o \in ProviderOutcomes : TranslateOpenRouterReturns(o)
  \/ \E o \in ProviderOutcomes : TranslateLibreReturns(o)
  \/ \E o \in ProviderOutcomes : TranslateMyMemoryReturns(o)
  \/ TranslateEnds

NextChat ==
  \/ \E req \in ChatRequests, ip \in Keys : ChatRequest(req, ip)
  \/ ChatDelayElapsed
  \/ \E o \in ProviderOutcomes : ChatPrimaryReturns(o)
  \/ \E o \in ProviderOutcomes : ChatGeminiReturns(o)
  \/ \E o \in ProviderOutcomes : ChatTertiaryReturns(o)
  \/ ChatEnds

NextLimiter ==
  \/ \E key \in Keys : RateLimiterCall(key)
  \/ \E d \in TickSteps : Tick(d)

ObservedKey == "ip1"

NextWindow ==
  \/ RateLimiterCallObserved(ObservedKey)
  \/ \E d \in TickSteps : Tick(d)

NextPlaces ==
  \/ \E req \in PlacesRequests : PlacesRequest(req)
  \/ \E m \in MirrorErrorMessages : PlacesMirrorFails(m)
  \/ \E data \in MirrorAnswers : PlacesMirrorAnswers(data)
  \/ PlacesEnds

SpecTranslate == Init /\ [][NextTranslate]_vars
SpecChat == Init /\ [][NextChat]_vars
SpecLimiter == Init /\ [][NextLimiter]_vars
SpecWindow == Init /\ [][NextWindow]_vars
SpecPlaces == Init /\ [][NextPlaces]_vars

\* Translate and chatbot requests in flight at the same time, with the clock
\* moving: the two handlers share chatbotProviderCooldownUntil, and each
\* await lets the other handler run.  One client, the requests that differ
\* in which field is missing, and a provider call that answers or fails
\* with no response, a 429 or a 500; the clock moves by the length of the
\* cooldown.
SharedTranslateRequests ==
  [text : {<<>>, Chars_Hello}, fromLanguage : {"", "English"}, toLanguage : {"", "Hindi"}]

SharedChatRequests == [message : {<<>>, Msg_beach}, context : {""}]

SharedOutcomes ==
  {o \in ProviderOutcomes : \/ o.kind = "ok" /\ o.body = JsStr(SomeText)
                            \/ o.kind = "error" /\ o.status \in {0, 429, 500}}

CooldownTickSteps == {CHATBOT_PROVIDER_COOLDOWN_MS}

NextRequests ==
  \/ \E req \in SharedTranslateRequests : TranslateRequest(req)
  \/ \E o \in SharedOutcomes : TranslateGoogleReturns(o)
  \/ \E o \in SharedOutcomes : TranslateOpenRouterReturns(o)
  \/ \E o \in SharedOutcomes : TranslateLibreReturns(o)
  \/ \E o \in SharedOutcomes : TranslateMyMemoryReturns(o)
  \/ TranslateEnds
  \/ \E req \in SharedChatRequests : ChatRequest(req, ObservedKey)
  \/ ChatDelayElapsed
  \/ \E o \in SharedOutcomes : ChatPrimaryReturns(o)
  \/ \E o \in SharedOutcomes : ChatGeminiReturns(o)
  \/ \E o \in SharedOutcomes : ChatTertiaryReturns(o)
  \/ ChatEnds
  \/ \E d \in CooldownTickSteps : Tick(d)

SpecRequests == Init /\ [][NextRequests]_vars

\* The same with the scheduling the code guarantees: a timer that has been
\* set fires (the 150 ms delay), a call made with a timeout settles
\* (libreTranslate and myMemoryTranslate pass timeout: 15000), and a handler
\* that has sent its response returns.  The gtranslate, OpenRouter and Gemini
\* calls are made without a timeout and settle only if the provider answers
\* or the connection fails.
FairRequests ==
  /\ WF_vars(\E o \in SharedOutcomes : TranslateLibreReturns(o))
  /\ WF_vars(\E o \in SharedOutcomes : TranslateMyMemoryReturns(o))
  /\ WF_vars(ChatDelayElapsed)
  /\ WF_vars(TranslateEnds)
  /\ WF_vars(ChatEnds)

SpecRequestsLive == SpecRequests /\ FairRequests

\* One request of each of the three handlers in flight at the same time.
\* The text and the message are a string, the number 123, or missing; a
\* provider call answers, answers without a text, or fails with a 429; a
\* mirror times out, answers without elements, with one named node 0.4 km
\* away, or with one named node that has no id.
HandlerOutcomes ==
  {o \in ProviderOutcomes : \/ o.kind = "ok" /\ o.body \in {JsStr(SomeText), JsUndefined}
                            \/ o.kind = "error" /\ o.status = 429}

NextHandlers ==
  \/ \E text \in {<<>>, Chars_Hello, Number_123} :
       TranslateRequest([text |-> text, fromLanguage |-> "English", toLanguage |-> "Hindi"])
  \/ \E o \in HandlerOutcomes : TranslateGoogleReturns(o)
  \/ \E o \in HandlerOutcomes : TranslateOpenRouterReturns(o)
  \/ \E o \in HandlerOutcomes : TranslateLibreReturns(o)
  \/ \E o \in HandlerOutcomes : TranslateMyMemoryReturns(o)
  \/ TranslateEnds
  \/ \E message \in {<<>>, Msg_beach, Number_123} :
       ChatRequest([message |-> message, context |-> ""], ObservedKey)
  \/ ChatDelayElapsed
  \/ \E o \in HandlerOutcomes : ChatPrimaryReturns(o)
  \/ \E o \in HandlerOutcomes : ChatGeminiReturns(o)
  \/ \E o \in HandlerOutcomes : ChatTertiaryReturns(o)
  \/ ChatEnds
  \/ \E latitude \in {Absent, Num(15300)} :
       PlacesRequest([latitude |-> latitude, longitude |-> Num(74100), radius |-> Absent])
  \/ PlacesMirrorFails("timeout of 15000ms exceeded")
  \/ \E elements \in {<<>>, <<El(TRUE, TRUE, Num(15304), Absent)>>,
                      <<El(TRUE, FALSE, Num(15304), Absent)>>} :
       PlacesMirrorAnswers([hasElements |-> elements # <<>>, elements |-> WithIds(elements)])
  \/ PlacesEnds

SpecHandlers == Init /\ [][NextHandlers]_vars

-----------------------------------------------------------------------------
(* Properties.                                                             *)

AllFailed(log) == log # <<>> /\ \A i \in 1..Len(log) : log[i].st \notin {"ok", "pending"}

IsPrefix(s, t) == Len(s) <= Len(t) /\ SubSeq(t, 1, Len(s)) = s

NonEmptyText(v) == v.kind = "string" /\ v.val # <<>>

\* C1: a valid translate or chatbot request all of whose provider calls have
\* failed, whatever the failures were, ends with a 200 response that has
\* success = true, fallback = true and a non-empty text (translatedText for
\* translate, message for chatbot).
C1_AllFailStillAnswers ==
  /\ (tPc = "done" /\ AllFailed(tContacted)) =>
       /\ tRes.status = 200 /\ tRes.success /\ tRes.fallback
       /\ NonEmptyText(tRes.translatedText)
  /\ (cPc = "done" /\ AllFailed(cContacted)) =>
       /\ cRes.status = 200 /\ cRes.success /\ cRes.fallback
       /\ cRes.message # <<>>

\* C2: translate contacts its providers in the order Google, OpenRouter,
\* LibreTranslate, MyMemory, each only after the one before it has failed;
\* OpenRouter is left out when no key is configured; a response that is not
\* a fallback names the provider contacted last, which is the only one that
\* answered usably.
TranslateOrder ==
  IF OPENROUTER_API_KEY THEN <<"google", "openrouter", "libretranslate", "mymemory">>
                        ELSE <<"google", "libretranslate", "mymemory">>

ProviderLabel(p) ==
  CASE p = "google" -> "google-translate-ai"
    [] p = "openrouter" -> "openrouter:model"
    [] OTHER -> p

C2_TranslateChainOrder ==
  /\ IsPrefix(Providers(tContacted), TranslateOrder)
  /\ \A i \in 1..(Len(tContacted) - 1) : tContacted[i].st \notin {"ok", "pending"}
  /\ (tPc = "done" /\ tRes.success /\ ~tRes.fallback) =>
       /\ tContacted # <<>>
       /\ tContacted[Len(tContacted)].st = "ok"
       /\ tRes.provider = ProviderLabel(tContacted[Len(tContacted)].p)
  /\ (tPc = "done" /\ tRes.success /\ tRes.fallback) =>
       /\ Providers(tContacted) = TranslateOrder
       /\ AllFailed(tContacted)

C2_Witness ==
  /\ tPc = "done" /\ OPENROUTER_API_KEY
  /\ tRes.provider = "mymemory"
  /\ Len(tContacted) = 4
  /\ tContacted[1].st = "http429" /\ tContacted[2].st = "malformed"

\* C3 (as stated): in the chatbot chain the free model is called whenever
\* Gemini fails with a 429 or a status of 500 or more, and is not called when
\* Gemini fails in another way.
GeminiFailedOverloaded(log, i) ==
  log[i].p = "gemini" /\ log[i].st \in {"http429", "http5xx"}

ChatOrder ==
  IF OPENROUTER_API_KEY THEN <<"openrouter", "gemini", "openrouter-free">>
                        ELSE <<"gemini">>

C4_ChatbotBehindLimiter ==
  cPc # "idle" =>
    /\ chatbotRateLimitStore[cIp] # NoEntry
    /\ chatbotRateLimitStore[cIp].count >= 1

RECURSIVE SumOver(_, _)
SumOver(h, times) ==
  IF times = {} THEN 0
  ELSE LET t == CHOOSE x \in times : TRUE
       IN h[t] + SumOver(h, times \ {t})

\* The calls of a key admitted at times from..to, as written down in rlAdmits.
AdmittedBetween(key, from, to) ==
  SumOver(rlAdmits[key], {t \in DOMAIN rlAdmits[key] : from <= t /\ t <= to})

\* C5: a call of a key made inside a window in which CHATBOT_MAX_REQUESTS of
\* its calls have been admitted is denied, with 0 <= retryAfterMs <=
\* CHATBOT_WINDOW_MS; a call made after the window's reset time is admitted
\* and starts a new window with the counter at 1.
C5_DeniedWhenFullAdmittedAfterReset ==
  [][ RateLimiterCallObserved(ObservedKey) =>
        LET entry == chatbotRateLimitStore[ObservedKey]
            after == chatbotRateLimitStore'[ObservedKey]
        IN /\ ( /\ entry # NoEntry
                /\ now <= entry.resetAt
                /\ AdmittedBetween(ObservedKey, entry.resetAt - CHATBOT_WINDOW_MS, now)
                     >= CHATBOT_MAX_REQUESTS )
              => /\ ~rlLast'.admitted
                 /\ rlLast'.status = 429
                 /\ 0 <= rlLast'.retryAfterMs
                 /\ rlLast'.retryAfterMs <= CHATBOT_WINDOW_MS
           /\ (entry # NoEntry /\ now > entry.resetAt)
              => /\ rlLast'.admitted
                 /\ after = [count |-> 1, resetAt |-> now + CHATBOT_WINDOW_MS]
    ]_vars

C5_Witness ==
  /\ rlLast.admitted
  /\ rlLast.before.count = CHATBOT_MAX_REQUESTS
  /\ rlLast.at > rlLast.before.resetAt
  /\ chatbotRateLimitStore[rlLast.key].count = 1

\* C6 (as stated): a sliding window: no interval of length CHATBOT_WINDOW_MS
\* holds more than CHATBOT_MAX_REQUESTS admitted calls of one key.
C6_SlidingWindow ==
  AdmittedBetween(ObservedKey, now - CHATBOT_WINDOW_MS, now) <= CHATBOT_MAX_REQUESTS

\* C6 (amended): a fixed window: of the calls of a key, at most
\* CHATBOT_MAX_REQUESTS are admitted during one window of the key (from the
\* call that starts it to its reset time), so an interval of length
\* CHATBOT_WINDOW_MS, which meets at most two windows, holds at most twice
\* CHATBOT_MAX_REQUESTS admitted calls.
C6_FixedWindow ==
  LET entry == chatbotRateLimitStore[ObservedKey]
  IN /\ (entry # NoEntry /\ now <= entry.resetAt) =>
          /\ AdmittedBetween(ObservedKey, entry.resetAt - CHATBOT_WINDOW_MS, now) = entry.count
          /\ entry.count <= CHATBOT_MAX_REQUESTS
     /\ AdmittedBetween(ObservedKey, now - CHATBOT_WINDOW_MS, now) <= 2 * CHATBOT_MAX_REQUESTS

C6_Witness ==
  /\ chatbotRateLimitStore[ObservedKey] # NoEntry
  /\ now <= chatbotRateLimitStore[ObservedKey].resetAt
  /\ AdmittedBetween(ObservedKey, now - CHATBOT_WINDOW_MS, now) > CHATBOT_MAX_REQUESTS

\* The radius the handler searches with: the request's radius, 5000 when the
\* request has none (or has 0).
RequestedRadius == IF pReq.radius.present /\ pReq.radius.v # 0 THEN pReq.radius.v ELSE 5000

PlacesSucceeded == pPc = "done" /\ pRes.status = 200 /\ pRes.success

\* C7: in a successful places/nearby response every place has distance <=
\* searchRadius / 1000 km and the list is in non-decreasing order of distance.
C7_WithinRadiusAndSorted ==
  PlacesSucceeded =>
    /\ \A i \in 1..Len(pRes.places) : pRes.places[i].distance * 100 <= RequestedRadius
    /\ \A i \in 1..(Len(pRes.places) - 1) :
         pRes.places[i].distance <= pRes.places[i + 1].distance

C7_Witness ==
  /\ PlacesSucceeded
  /\ Len(pRes.places) >= 2
  /\ pRes.places[1].id > pRes.places[2].id
  /\ pRes.places[1].distance < pRes.places[2].distance
  /\ Len(Named(pRaw)) > Len(pRes.places)

\* C8: a successful places/nearby response lists at most 50 places, total is
\* the length of the list, every place listed is one that survived the
\* filters, and when more than 50 survived the list holds 50 of them, none
\* farther away than a survivor that was left out.
C8_AtMostFiftyNearest ==
  PlacesSucceeded =>
    LET listed == {pRes.places[i].id : i \in 1..Len(pRes.places)}
    IN /\ Len(pRes.places) <= 50
       /\ pRes.total = Len(pRes.places)
       /\ Cardinality(listed) = Len(pRes.places)
       /\ \A i \in 1..Len(pRes.places) :
            \E j \in 1..Len(pSurvivors) : pSurvivors[j] = pRes.places[i]
       /\ Len(pSurvivors) <= 50 => Len(pRes.places) = Len(pSurvivors)
       /\ Len(pSurvivors) > 50 =>
            /\ Len(pRes.places) = 50
            /\ \A j \in 1..Len(pSurvivors) :
                 pSurvivors[j].id \notin listed =>
                   \A i \in 1..Len(pRes.places) :
                     pRes.places[i].distance <= pSurvivors[j].distance

C8_Witness ==
  /\ PlacesSucceeded
  /\ Len(pSurvivors) > 50
  /\ pRes.total = 50
  /\ pRes.places[1].id > 50
  /\ pRes.places[1].distance < pRes.places[2].distance

\* C9: a places/nearby request without latitude or without longitude is
\* answered with 400 in the step that receives it, and no mirror is called
\* for it.
C9_MissingCoordinateIs400 ==
  (pPc # "idle" /\ (~pReq.latitude.present \/ ~pReq.longitude.present)) =>
    /\ pPc = "done"
    /\ pRes.status = 400
    /\ pSent = 1
    /\ pContacted = <<>>

C9_Witness ==
  /\ pPc = "done"
  /\ pReq.latitude.present /\ pReq.latitude.v # 0
  /\ ~pReq.longitude.present
  /\ pRes.status = 400

\* C10: when all three mirrors have failed the response is a 500 whose
\* message says that all endpoints failed, which no other 500 of the handler
\* says.
AllMirrorsFailed ==
  Len(pContacted) = Len(overpassUrls) /\ \A i \in 1..Len(pContacted) : pContacted[i].st = "failed"

C10_AllFailedIsDistinguished ==
  pPc = "done" =>
    /\ AllMirrorsFailed => (pRes.status = 500 /\ pRes.message = AllFailedMessage)
    /\ (pRes.status = 500 /\ ~AllMirrorsFailed) => pRes.message # AllFailedMessage

\* C11: places/nearby calls the three mirrors one at a time in the order
\* kumi.systems, overpass-api.de, mail.ru; a mirror is called only after
\* every mirror before it has failed, so none is called after one has
\* answered; a 500 that carries a mirror's error is sent only when all three
\* have failed, and when a mirror has answered the response is the one made
\* from its answer.
MirrorOrder ==
  << "https://overpass.kumi.systems/api/interpreter",
     "https://overpass-api.de/api/interpreter",
     "https://maps.mail.ru/osm/tools/overpass/api/interpreter" >>

SomeMirrorAnswered == \E i \in 1..Len(pContacted) : pContacted[i].st = "ok"

C11_MirrorsInOrderFirstAnswerWins ==
  /\ IsPrefix(Providers(pContacted), MirrorOrder)
  /\ \A i \in 1..(Len(pContacted) - 1) : pContacted[i].st = "failed"
  /\ (pPc = "mirror") <=> (pContacted # <<>> /\ pContacted[Len(pContacted)].st = "pending")
  /\ (pPc = "done" /\ pRes.status = 500 /\ pRes.message \in MirrorErrorMessages) =>
       AllMirrorsFailed
  /\ (pPc = "done" /\ SomeMirrorAnswered) =>
       /\ pContacted[Len(pContacted)].st = "ok"
       /\ pRes.message \notin MirrorErrorMessages
       /\ pRes.status = 500 => pRes.message = TypeErrorMessage
  /\ (pPc = "done" /\ pContacted # <<>> /\ ~SomeMirrorAnswered) => AllMirrorsFailed

C11_Witness ==
  /\ pPc = "done"
  /\ Len(pContacted) = 3
  /\ pContacted[1].st = "failed" /\ pContacted[2].st = "failed" /\ pContacted[3].st = "ok"
  /\ pRes.status = 200 /\ pRes.total >= 1

\* C12: a translate request without text, fromLanguage or toLanguage and a
\* chatbot request without message are answered with 400 in the step that
\* receives them, with no provider called; once a provider has been called
\* for a request, translate and chatbot never answer it with a 4xx status.
C12_Only400BeforeProviders ==
  /\ (tPc # "idle" /\ (tReq.text = <<>> \/ tReq.fromLanguage = "" \/ tReq.toLanguage = "")) =>
       /\ tPc = "done" /\ tSent = 1
       /\ tRes.status = 400
       /\ tContacted = <<>>
  /\ (cPc # "idle" /\ cReq.message = <<>>) =>
       /\ cPc = "done" /\ cSent = 1
       /\ cRes.status = 400
       /\ cContacted = <<>>
  /\ tContacted # <<>> => tRes.status \notin 400..499
  /\ cContacted # <<>> => cRes.status \notin 400..499

C12_Witness ==
  /\ tPc = "done" /\ tReq.text # <<>> /\ tReq.fromLanguage # "" /\ tReq.toLanguage = ""
  /\ tRes.status = 400
  /\ cPc = "done" /\ cRes.status = 200 /\ cRes.fallback /\ Len(cContacted) >= 1

\* C13: when every provider called for a translate request has failed and
\* the text is a key of the phrase dictionary of the language pair, in the
\* same or in another letter case, the response is a fallback whose
\* translatedText is the dictionary's value for that key, not a word-by-word
\* composition.
PhraseDictionary(fromLanguage, toLanguage) ==
  IF fromLanguage = "English" /\ toLanguage = "Hindi" THEN Dict_English_Hindi ELSE <<>>

\* the keys of the English-Hindi dictionary in lower case
PhraseKeysLower ==
  [i \in 1..Len(Dict_English_Hindi) |-> toLowerCase(Dict_English_Hindi[i].k)]

C13_DictionaryPhraseIsExact ==
  (tPc = "done" /\ AllFailed(tContacted)) =>
    LET dict == PhraseDictionary(tReq.fromLanguage, tReq.toLanguage)
        lowerText == toLowerCase(tReq.text)
    IN \A i \in 1..Len(dict) :
         PhraseKeysLower[i] = lowerText =>
           /\ tRes.status = 200 /\ tRes.success /\ tRes.fallback
           /\ tRes.translatedText = JsStr(dict[i].v)

C13_Witness ==
  /\ tPc = "done" /\ AllFailed(tContacted)
  /\ tReq.text = Chars_thank_you /\ tReq.fromLanguage = "English" /\ tReq.toLanguage = "Hindi"
  /\ tRes.translatedText = JsStr(<<"u0927u0928u094Du092Fu0935u093Eu0926">>)

\* C14: when every provider called for a chatbot request has failed, the
\* reply holds one canned paragraph for each topic (beach, lodging, weather,
\* food, transport, emergency) one of whose keywords occurs in the message,
\* letter case ignored, in that order of topics, and the generic paragraph
\* exactly when no topic matches; the response has fallback = true and
\* provider = 'offline-goa-guide'.
ExpectedParagraphs(message) ==
  LET lower == toLowerCase(message)
      Has(kw) == includes(lower, kw)
      Topic(hit, paragraph) == IF hit THEN <<paragraph>> ELSE <<>>
      topics ==
        Topic(Has(Kw_beach), CannedBeach)
          \o Topic(Has(Kw_hotel) \/ Has(Kw_stay) \/ Has(Kw_resort), CannedStay)
          \o Topic(Has(Kw_weather), CannedWeather)
          \o Topic(Has(Kw_food) \/ Has(Kw_restaurant) \/ Has(Kw_eat), CannedFood)
          \o Topic(Has(Kw_transport) \/ Has(Kw_taxi) \/ Has(Kw_cab) \/ Has(Kw_scooter),
                   CannedTransport)
          \o Topic(Has(Kw_emergency) \/ Has(Kw_help), CannedEmergency)
  IN IF topics = <<>> THEN <<CannedGeneric>> ELSE topics

\* the paragraphs of a reply: its elements other than the separating blanks
ParagraphsOf(reply) == SelectSeq(reply, LAMBDA x : x # " ")

C14_OfflineReplyByTopic ==
  (cPc = "done" /\ AllFailed(cContacted)) =>
    /\ cRes.status = 200 /\ cRes.success /\ cRes.fallback
    /\ cRes.provider = "offline-goa-guide"
    /\ ParagraphsOf(cRes.message) = ExpectedParagraphs(cReq.message)
    /\ Len(cRes.message) = 2 * Len(ExpectedParagraphs(cReq.message)) - 1

C14_Witness ==
  /\ cPc = "done" /\ AllFailed(cContacted)
  /\ cReq.message = Msg_many
  /\ cRes.message = <<CannedStay, " ", CannedTransport, " ", CannedEmergency>>

\* C15: every translate response with success = true has a provider field
\* that names what produced the translation, the offline fallback included.
C15_SuccessNamesProvider ==
  (tPc = "done" /\ tRes.success) => tRes.provider # ""

Has429(log) == \E i \in 1..Len(log) : log[i].st = "http429"

\* C16: a translate fallback response carries the rate-limit message when
\* one of the provider calls of the request failed with a 429, whichever
\* provider it was, and the generic fallback message when none did.
C16_RateLimitMessageOnAny429 ==
  (tPc = "done" /\ tRes.fallback) =>
    /\ Has429(tContacted) => tRes.message = "Rate limited. Using fallback translation."
    /\ ~Has429(tContacted) => tRes.message = "Using fallback translation"

\* The step calls the provider p for the chatbot request in flight.
ChatCalls(p) ==
  /\ Len(cContacted') = Len(cContacted) + 1
  /\ cContacted'[Len(cContacted')].p = p

\* C17: the chatbot handler does not call Gemini while the cooldown is in
\* force, that is at a time before chatbotProviderCooldownUntil.
C17_NoGeminiCallDuringCooldown ==
  [][ ChatCalls("gemini") => ~(now < chatbotProviderCooldownUntil) ]_vars

\* The step sends the response of a translate (chatbot) request one of whose
\* provider calls failed with a 429.
TranslateAnswersAfter429 == tPc # "done" /\ tPc' = "done" /\ Has429(tContacted')
ChatAnswersAfter429 == cPc # "done" /\ cPc' = "done" /\ Has429(cContacted')

\* C18: a translate or chatbot request one of whose provider calls failed
\* with a 429, whichever call it was and whether or not a later provider
\* answered, has set the cooldown to now + CHATBOT_PROVIDER_COOLDOWN_MS by
\* the time its response is sent.
C18_CooldownOnAny429 ==
  [][ (TranslateAnswersAfter429 \/ ChatAnswersAfter429) =>
        chatbotProviderCooldownUntil' = now + CHATBOT_PROVIDER_COOLDOWN_MS ]_vars

\* C19: while the cooldown is in force no step of a translate or chatbot
\* request lowers or clears chatbotProviderCooldownUntil.
C19_CooldownNotLoweredEarly ==
  [][ now < chatbotProviderCooldownUntil =>
        chatbotProviderCooldownUntil' >= chatbotProviderCooldownUntil ]_vars

\* C20: every translate and every chatbot request that has passed validation
\* is eventually answered, whichever of its providers never answer.
C20_EveryRequestAnswered ==
  /\ (tPc \notin {"idle", "done"}) ~> (tPc = "done" /\ tSent = 1)
  /\ (cPc \notin {"idle", "done"}) ~> (cPc = "done" /\ cSent = 1)

\* C26: a places/nearby request that has both a latitude and a longitude is
\* never answered with 400, whatever the two numbers are.
C26_PresentCoordinatesNever400 ==
  (pPc # "idle" /\ pReq.latitude.present /\ pReq.longitude.present) => pRes.status # 400

\* C27: no place of a successful places/nearby response lies farther from
\* the query point, by the distance the handler computed before rounding it,
\* than searchRadius metres.
C27_UnroundedDistanceWithinRadius ==
  PlacesSucceeded =>
    \A i \in 1..Len(pRes.places) :
      HaversineMm(pRes.places[i].lat, pReq.latitude.v) <= RequestedRadius * 1000

\* C28: a 500 response of places/nearby carries fixed text only, never the
\* message of the exception or of the provider error that caused it.
C28_No500ExposesErrorMessage ==
  (pPc = "done" /\ pRes.status = 500) =>
    /\ pRes.message \notin MirrorErrorMessages
    /\ pRes.message # TypeErrorMessage

\* C22: the limiter's check and increment are one step (the middleware has
\* no await between reading the entry and writing it back): every admitted
\* call of a key raises the key's counter by exactly one over the value the
\* window had, a denied call leaves it alone, so the counter equals the
\* number of calls admitted since the window began and never exceeds
\* CHATBOT_MAX_REQUESTS.
C22_NoLostCounterUpdate ==
  [][ RateLimiterCallObserved(ObservedKey) =>
        LET entry == chatbotRateLimitStore[ObservedKey]
            after == chatbotRateLimitStore'[ObservedKey]
            counted == IF entry = NoEntry \/ now > entry.resetAt THEN 0 ELSE entry.count
            admits == rlAdmits'[ObservedKey]
            since == {t \in DOMAIN admits : after.resetAt - CHATBOT_WINDOW_MS <= t}
        IN /\ rlLast'.admitted => (counted < CHATBOT_MAX_REQUESTS /\ after.count = counted + 1)
           /\ ~rlLast'.admitted => (counted = CHATBOT_MAX_REQUESTS /\ after.count = counted)
           /\ after.count = SumOver(admits, since)
           /\ after.count <= CHATBOT_MAX_REQUESTS
    ]_vars

C22_Witness ==
  /\ rlLast.key = ObservedKey /\ rlLast.admitted /\ rlLast.at = now
  /\ now \in DOMAIN rlAdmits[ObservedKey]
  /\ rlAdmits[ObservedKey][now] = CHATBOT_MAX_REQUESTS
  /\ chatbotRateLimitStore[ObservedKey].count = CHATBOT_MAX_REQUESTS

\* The translate provider call in flight settles with outcome o.
TranslateProviderReturns(o) ==
  \/ TranslateGoogleReturns(o)
  \/ TranslateOpenRouterReturns(o)
  \/ TranslateLibreReturns(o)
  \/ TranslateMyMemoryReturns(o)

\* C23: translate takes a provider's answer as the result only if its text
\* field is a non-empty string; after a 2xx answer whose text field is
\* missing or empty the answer is not taken and the chain goes on, to the
\* next provider or, after MyMemory, to the offline dictionary.  This holds
\* for each of the four providers.
C23_OnlyNonEmptyTextAccepted ==
  [][ (tPc \in {"google", "openrouter", "libretranslate", "mymemory"}) =>
        LET taken == tPc' = "done" /\ ~tRes'.fallback
            went_on == \/ Len(tContacted') = Len(tContacted) + 1
                       \/ (tPc = "mymemory" /\ tPc' = "done" /\ tRes'.fallback)
            passed_over == ~taken /\ went_on /\ tContacted'[Len(tContacted)].st # "ok"
        IN /\ taken =>
                (\A o \in ProviderOutcomes :
                   (tContacted' = Returned(tContacted, o) /\ TranslateProviderReturns(o)) =>
                     (o.kind = "ok" /\ o.body.kind = "string" /\ o.body.val # <<>>))
           /\ ~passed_over =>
                (\A o \in ProviderOutcomes :
                   (o.kind = "ok" /\ o.body \in {JsUndefined, JsStr(<<>>)}) =>
                     ~TranslateProviderReturns(o))
    ]_vars

C23_Witness ==
  /\ tPc = "done" /\ OPENROUTER_API_KEY
  /\ Len(tContacted) = 3
  /\ tContacted[1].st = "malformed" /\ tContacted[2].st = "malformed"
  /\ tRes.provider = "libretranslate"

\* The offline path of translate has answered, from a phrase dictionary.
AnsweredOffline == tPc = "done" /\ tRes.status = 200 /\ tRes.fallback

\* No key of the dictionary is the text, in the same or another letter case.
NoPhraseMatch(text, dict) ==
  \A i \in 1..Len(dict) : toLowerCase(dict[i].k) # toLowerCase(text)

\* The look-up of the handler's word loop for one word of the text.
WordLookup(word) ==
  TranslateWord(toLowerCase(word), translationPatterns(tReq.fromLanguage, tReq.toLanguage),
                fallbackTranslations(tReq.fromLanguage, tReq.toLanguage))

\* C24: in the word-by-word offline translation (no phrase of the dictionary
\* matches the text, at least one word is translated) the output is the
\* words of the text in their order, each translated word replaced by its
\* translation and each other word left exactly as it was written.
C24_UntranslatedWordsVerbatim ==
  LET dict == fallbackTranslations(tReq.fromLanguage, tReq.toLanguage)
      words == split(tReq.text)
  IN (AnsweredOffline /\ dict # <<>> /\ NoPhraseMatch(tReq.text, dict)
        /\ \E i \in 1..Len(words) : WordLookup(words[i]).hit) =>
       tRes.translatedText =
         JsStr(join([i \in 1..Len(words) |->
                       IF WordLookup(words[i]).hit THEN WordLookup(words[i]).v
                                                   ELSE JsStr(words[i])]))

\* A word has a translation of its own: an entry of the pattern table for it,
\* or a dictionary key that contains it or that it contains.
HasTranslation(word, patterns, dict) ==
  LET lower == toLowerCase(word)
  IN \/ HasOwn(patterns, lower)
     \/ \E i \in 1..Len(dict) :
          includes(toLowerCase(dict[i].k), lower) \/ includes(lower, toLowerCase(dict[i].k))

\* C25: when nothing translates on the offline path (the language pair has
\* no phrase dictionary, or no phrase of it matches the text and no word of
\* the text has a translation) translatedText is the text of the request,
\* unchanged.
C25_NothingTranslatesEchoesText ==
  LET dict == fallbackTranslations(tReq.fromLanguage, tReq.toLanguage)
      patterns == translationPatterns(tReq.fromLanguage, tReq.toLanguage)
      words == split(tReq.text)
  IN (AnsweredOffline
        /\ \/ dict = <<>>
           \/ /\ NoPhraseMatch(tReq.text, dict)
              /\ \A i \in 1..Len(words) : ~HasTranslation(words[i], patterns, dict)) =>
       tRes.translatedText = JsStr(tReq.text)

\* The provider calls of a log that are in flight.
InFlight(log) == {i \in 1..Len(log) : log[i].st = "pending"}

\* C21: a translate, chatbot or places/nearby request has at most one
\* provider call in flight: the calls before the latest one of the request
\* have all settled, and the handler is waiting for a provider exactly when
\* the latest call is in flight.
C21_OneCallInFlight ==
  /\ \A log \in {tContacted, cContacted, pContacted} :
       /\ Cardinality(InFlight(log)) <= 1
       /\ InFlight(log) \subseteq {Len(log)}
  /\ (InFlight(tContacted) # {}) <=>
       (tPc \in {"google", "openrouter", "libretranslate", "mymemory"})
  /\ (InFlight(cContacted) # {}) <=> (cPc \in {"openrouter", "gemini", "openrouter-free"})
  /\ (InFlight(pContacted) # {}) <=> (pPc = "mirror")

C21_Witness ==
  /\ Len(tContacted) = 4 /\ InFlight(tContacted) = {4}
  /\ Len(cContacted) = 3 /\ InFlight(cContacted) = {3}
  /\ Len(pContacted) = 3 /\ InFlight(pContacted) = {3}

SomeCallSucceeded(log) == \E i \in 1..Len(log) : log[i].st = "ok"

\* C29: a 200 response of translate or chatbot has fallback = true exactly
\* when none of the provider calls of the request succeeded; a response made
\* from a provider's answer never has it; and a chatbot response has
\* provider = 'offline-goa-guide' exactly when it has fallback = true.
C29_FallbackIffNoProviderSucceeded ==
  /\ (tPc = "done" /\ tRes.status = 200) =>
       /\ tRes.fallback <=> ~SomeCallSucceeded(tContacted)
       /\ tRes.provider # "" => ~tRes.fallback
  /\ (cPc = "done" /\ cRes.status = 200) =>
       /\ cRes.fallback <=> ~SomeCallSucceeded(cContacted)
       /\ (cRes.provider = "offline-goa-guide") <=> cRes.fallback
  /\ ~tRes.fallback \/ tRes.status = 200
  /\ ~cRes.fallback \/ cRes.status = 200

C29_Witness ==
  /\ tPc = "done" /\ tRes.provider = "mymemory" /\ ~tRes.fallback
  /\ cPc = "done" /\ cRes.fallback /\ Len(cContacted) = 3

\* C30: every translate, chatbot and places/nearby request gets exactly one
\* response: never two, and one by the time its handler has ended.
C30_ExactlyOneResponse ==
  /\ tSent <= 1 /\ cSent <= 1 /\ pSent <= 1
  /\ tPc \in {"done", "rejected"} => tSent = 1
  /\ cPc \in {"done", "rejected"} => cSent = 1
  /\ pPc = "done" => pSent = 1

\* The frame of one chatbotRateLimiter call of `key`: every entry of the
\* store keeps 0 <= count <= CHATBOT_MAX_REQUESTS, no key leaves the store
\* and no entry of another key changes.
StoreFrame(key) ==
  /\ \A k \in Keys : /\ 0 <= chatbotRateLimitStore'[k].count
                     /\ chatbotRateLimitStore'[k].count <= CHATBOT_MAX_REQUESTS
                     /\ chatbotRateLimitStore[k] # NoEntry => chatbotRateLimitStore'[k] # NoEntry
  /\ \A k \in Keys \ {key} : chatbotRateLimitStore'[k] = chatbotRateLimitStore[k]

\* C31 (as stated): every entry of the store has 0 <= count <=
\* CHATBOT_MAX_REQUESTS; a denied call leaves the entry of its key as it
\* was, an admitted call leaves count one higher than it found it, and no
\* call removes a key or changes the entry of another key.
C31_AdmittedCallAddsOne ==
  [][ \A key \in Keys :
        RateLimiterCall(key) =>
          /\ StoreFrame(key)
          /\ ~rlLast'.admitted => chatbotRateLimitStore'[key] = chatbotRateLimitStore[key]
          /\ rlLast'.admitted =>
               chatbotRateLimitStore'[key].count = chatbotRateLimitStore[key].count + 1
    ]_vars

\* C31 (amended): every entry of the store has 0 <= count <=
\* CHATBOT_MAX_REQUESTS; a denied call leaves the entry of its key as it
\* was; an admitted call that finds the entry of its key with now <= resetAt
\* leaves count one higher and resetAt as it was; an admitted call that finds
\* no entry, or an entry with now > resetAt, leaves count = 1 and resetAt =
\* now + CHATBOT_WINDOW_MS whatever count was; no call removes a key or
\* changes the entry of another key.
C31_StoreFrame ==
  [][ \A key \in Keys :
        RateLimiterCall(key) =>
          LET entry == chatbotRateLimitStore[key]
              after == chatbotRateLimitStore'[key]
          IN /\ StoreFrame(key)
             /\ ~rlLast'.admitted => after = entry
             /\ (rlLast'.admitted /\ entry # NoEntry /\ now <= entry.resetAt) =>
                  after = [count |-> entry.count + 1, resetAt |-> entry.resetAt]
             /\ (rlLast'.admitted /\ (entry = NoEntry \/ now > entry.resetAt)) =>
                  after = [count |-> 1, resetAt |-> now + CHATBOT_WINDOW_MS]
             /\ (entry # NoEntry /\ now <= entry.resetAt
                   /\ entry.count >= CHATBOT_MAX_REQUESTS) => ~rlLast'.admitted
    ]_vars

\* a call denied at the very reset time of its key's window, which did not
\* start at time 0, while the other key has an entry of its own
C31_Witness ==
  /\ ~rlLast.admitted /\ rlLast.status = 429
  /\ rlLast.before.resetAt > CHATBOT_WINDOW_MS
  /\ rlLast.at = rlLast.before.resetAt
  /\ chatbotRateLimitStore[rlLast.key] = rlLast.before
  /\ \E k \in Keys \ {rlLast.key} : chatbotRateLimitStore[k].count >= 1

\* C32: the retryAfterMs of a denial is sufficient: when the latest call of
\* the key was denied at time t and its next call is made at exactly
\* t + retryAfterMs, that call is admitted.
C32_RetryAfterIsSufficient ==
  [][ ( /\ RateLimiterCallObserved(ObservedKey)
        /\ rlLast.key = ObservedKey
        /\ rlLast.status = 429
        /\ now = rlLast.at + rlLast.retryAfterMs )
      => rlLast'.admitted
    ]_vars

\* C33: when the mirror being waited for answers without error and the body
\* has no elements, the mirror loop ends there: the request is answered
\* with 200, success = true, places = [] and total = 0, the mirrors after it
\* in the list are not called, and none is called after the response.
C33_NoElementsEndsTheLoop ==
  [][ /\ \A data \in MirrorAnswers :
           (~data.hasElements /\ PlacesMirrorAnswers(data)) =>
             /\ pRes'.status = 200 /\ pRes'.success
             /\ pRes'.places = <<>> /\ pRes'.total = 0
             /\ pSent' = 1
             /\ pPc' = "done"
             /\ Providers(pContacted') = Providers(pContacted)
             /\ pContacted'[Len(pContacted')].st = "ok"
      /\ (pPc = "done") => (pPc' = "idle" /\ pContacted' = <<>>)
    ]_vars

\* the second mirror has answered after the first failed, the request has
\* its empty 200 response, and the third mirror has not been called
C33_Witness ==
  /\ pPc = "done"
  /\ pRes.status = 200 /\ pRes.success /\ pRes.places = <<>> /\ pRes.total = 0
  /\ pRaw = <<>>
  /\ Len(pContacted) = 2
  /\ pContacted[1].st = "failed" /\ pContacted[2].st = "ok"

\* The raw element of the mirror's answer that a returned place was made of.
RawOf(place) == pRaw[CHOOSE i \in 1..Len(pRaw) : pRaw[i].id = place.id]

\* C34: every place of a places/nearby response has the coordinates of its
\* raw element: the element's own latitude, or its centre's when it has none
\* of its own; a named element with neither is not returned as a place at
\* the latitude of the query with distance 0.
C34_CoordinatesComeFromTheElement ==
  (pPc = "done" /\ pRes.status = 200) =>
    \A i \in 1..Len(pRes.places) :
      LET place == pRes.places[i]
          element == RawOf(place)
      IN /\ element.lat.present \/ element.center.present
         /\ place.lat = (IF element.lat.present THEN element.lat.v ELSE element.center.v)

====
